---- MODULE Spec2Model ----
(***************************************************************************)
(* Workspace history engine, rotation-aware coordinate model, compositor  *)
(* and merge/split of the PDF workspace (App.tsx, PdfViewer.tsx,           *)
(* usePdfOperations.ts, pdfService.ts).                                    *)
(*                                                                         *)
(* Geometry is kept on an integer grid: one page side is Unit grid steps,  *)
(* so 0.05 is 5, 0.32 is 32 and 0.99 is 99.  The history cursor            *)
(* historyIndex is 0-based as in the code; TLA+ sequences are 1-based, so  *)
(* the code's history[i] is history[i + 1] here.                           *)
(***************************************************************************)
EXTENDS Integers, Sequences, FiniteSets, TLC

VARIABLES
    fileTree,               \* FileSystemItem[]                 (useState, App.tsx:26)
    annotationsByFile,      \* Record<fileId, TextAnnotation[]>  (App.tsx:89)
    imageAnnotationsByFile, \* Record<fileId, ImageAnnotation[]> (App.tsx:90)
    textPatchesByFile,      \* Record<fileId, EditTextPatch[]>   (App.tsx:94)
    history,                \* WorkspaceState[]                  (App.tsx:98)
    historyIndex,           \* cursor, -1 when nothing captured  (App.tsx:99)
    activeFile,             \* state.activeFile                  (App.tsx:112)
    currentPage,            \* App.tsx:74
    pageRotations,          \* Record<page, degrees>             (App.tsx:75)
    isTextMode,             \* App.tsx:78
    selectedAnnotationId,   \* App.tsx:91
    selectedPatchId,        \* App.tsx:95
    editingId,              \* PdfViewer.tsx:742
    draftText,              \* PdfViewer.tsx:744
    pendingUpload,          \* the upload suspended at its await (App.tsx:436)
    userIsPro,              \* useGoogleAuth().isPro             (App.tsx:29)
    textStyle,              \* the toolbar's current style       (App.tsx:79)
    nextNodeId,             \* source of fresh node ids
    nextEntId,              \* source of fresh annotation/patch/image ids
    moves,                  \* drag and resize gestures made so far
    captures,               \* pushHistory calls made so far
    op,                     \* the handler that ran last and whether it passed its guards
    mark,                   \* observer: live states remembered across capture/undo/redo
    xf,                     \* evaluation of the two transform functions on one input
    detected,               \* observer: the bbox each patch was created with
    composite,              \* the last call of savePdfWithAnnotations and its result
    projected,              \* evaluation of pageOverlays on the lists of that call
    runs,                   \* evaluation of the run resolver on one entity
    mergeQueue,             \* ids in the merge dialog, in merge order (App.tsx:103)
    job,                    \* the merge or split that was started last
    flight,                 \* the calls of savePdfWithAnnotations that have not resolved
    signature               \* the pending signature and its image loads (App.tsx:45)

vars == <<fileTree, annotationsByFile, imageAnnotationsByFile, textPatchesByFile,
          history, historyIndex, activeFile, currentPage, pageRotations, isTextMode,
          selectedAnnotationId, selectedPatchId, editingId, draftText, pendingUpload,
          userIsPro, textStyle, nextNodeId, nextEntId, moves, captures, op, mark, xf,
          detected, composite, projected, runs, mergeQueue, job, flight, signature>>

----------------------------------------------------------------------------
(* Bounds of the exploration *)

MaxHistory == 3     \* longest history log explored
MaxCaptures == 3    \* pushHistory calls in one run
MaxNodes == 1       \* documents uploaded in one run
MaxEnts == 1        \* annotations, patches and images created in one run
MaxMoves == 1       \* drag and resize gestures in one run
MaxCoord == 2       \* largest multiple of 0.3 among the transform inputs
MaxDrawn == 3       \* entities handed to one call of the compositor
MaxLoads == 2       \* image loads started for one pending signature

(* Program constants, in grid steps (Unit steps = 1.0) *)

Unit == 100
DefaultHeight == 5          \* 0.05
DefaultAnnWidth == 32       \* 0.32
DragMax == 99               \* 0.99
MinImageWidth == 5          \* 0.05
DefaultImageHeight == 10    \* 0.1

Rotations == {0, 90, 180, 270}

----------------------------------------------------------------------------
(* Coordinate transform, PdfViewer.tsx:183-210 *)

Absent == -1    \* an optional numeric field that is not set (undefined)

\* JavaScript's  v || d  on an optional number: undefined and 0 are falsy
OrElse(v, d) == IF v = Absent \/ v = 0 THEN d ELSE v

Rect(x, y, w, h) == [x |-> x, y |-> y, w |-> w, h |-> h]

transformRect(x, y, w, h, rotation) ==
    LET r == rotation % 360 IN
    IF r = 90 THEN Rect(Unit - y - OrElse(h, 0), x, OrElse(h, DefaultHeight), w)
    ELSE IF r = 180 THEN Rect(Unit - x - w, Unit - y - OrElse(h, 0), w, OrElse(h, 0))
    ELSE IF r = 270 THEN Rect(y, Unit - x - w, OrElse(h, DefaultHeight), w)
    ELSE Rect(x, y, w, OrElse(h, 0))

inverseTransformRect(x, y, w, h, rotation) ==
    LET r == rotation % 360 IN
    IF r = 90 THEN Rect(y, Unit - x - w, h, w)
    ELSE IF r = 180 THEN Rect(Unit - x - w, Unit - y - h, w, h)
    ELSE IF r = 270 THEN Rect(Unit - y - h, x, h, w)
    ELSE Rect(x, y, w, h)

----------------------------------------------------------------------------
(* Values *)

\* The payload slot of a tree node: absent, real bytes, or what
\* JSON.parse(JSON.stringify(..)) leaves of a Uint8Array (a plain object of
\* index -> number, no longer a byte buffer).
NoData == [kind |-> "none", v |-> ""]
Bytes(b) == [kind |-> "bytes", v |-> b]
JsonOfData(d) == IF d.kind = "bytes" THEN [kind |-> "json", v |-> d.v] ELSE d
Truthy(d) == d.kind # "none"

\* The bytes of a document, as what PDFDocument.load reads out of them: the
\* pages, each with its origin, its rotation and the operations drawn on it.
Page(doc, no) == [doc |-> doc, no |-> no, rotation |-> 0, drawn |-> <<>>]
Pdf(doc, n) == [pdf |-> TRUE, pages |-> [i \in 1..n |-> Page(doc, i)]]
NotAPdf == [pdf |-> FALSE, pages |-> <<>>]

Payloads == {Pdf("a", 1)}    \* contents of the files a user may upload

Node(id, name, type, data, children) ==
    [id |-> id, name |-> name, type |-> type, data |-> data, children |-> children]

NoFile == [id |-> 0, name |-> "", type |-> "none", data |-> NoData]   \* activeFile: null
FileOf(n) == [id |-> n.id, name |-> n.name, type |-> n.type, data |-> n.data]

\* INITIAL_FILE_SYSTEM (services/mockData, App.tsx:4): the mock tree a session
\* starts with, here one folder without live data.
INITIAL_FILE_SYSTEM == << Node(100, "Documents", "folder", NoData, <<>>) >>

\* Record<string, T[]> : a function on the keys that were ever written
EmptyMap == [k \in {} |-> <<>>]
Get(m, k) == IF k \in DOMAIN m THEN m[k] ELSE <<>>              \* m[k] || []
Put(m, k, v) == [j \in (DOMAIN m) \cup {k} |-> IF j = k THEN v ELSE m[j]]

\* { ...a, ...updates }
Merge(a, updates) ==
    [f \in (DOMAIN a) \cup (DOMAIN updates) |->
        IF f \in DOMAIN updates THEN updates[f] ELSE a[f]]
Range(s) == {s[i] : i \in 1..Len(s)}

Max(a, b) == IF a > b THEN a ELSE b
Min(a, b) == IF a < b THEN a ELSE b

----------------------------------------------------------------------------
(* File tree helpers *)

RECURSIVE insertNode(_, _, _)
\* usePdfOperations.ts:21-32; parentId 0 stands for undefined
insertNode(tree, newNode, parentId) ==
    IF parentId = 0 THEN Append(tree, newNode)
    ELSE [i \in 1..Len(tree) |->
            IF tree[i].id = parentId
               THEN [tree[i] EXCEPT !.children = Append(@, newNode)]
               ELSE [tree[i] EXCEPT !.children = insertNode(@, newNode, parentId)]]

RECURSIVE findParentId(_, _)
\* usePdfOperations.ts:58-67; 0 stands for null
findParentId(targetId, items) ==
    IF items = <<>> THEN 0
    ELSE LET item == Head(items)
             here == IF \E i \in 1..Len(item.children) : item.children[i].id = targetId
                        THEN item.id
                        ELSE findParentId(targetId, item.children)
         IN IF here # 0 THEN here ELSE findParentId(targetId, Tail(items))

RECURSIVE Flatten(_)
\* every node of a tree, in document order
Flatten(nodes) ==
    IF nodes = <<>> THEN <<>>
    ELSE <<Head(nodes)>> \o Flatten(Head(nodes).children) \o Flatten(Tail(nodes))

NodeIds(tree) == {n.id : n \in Range(Flatten(tree))}

\* App.tsx:324-333
findNodeById(items, id) ==
    LET f == Flatten(items)
        hits == {i \in 1..Len(f) : f[i].id = id}
    IN f[CHOOSE i \in hits : \A j \in hits : i <= j]

RECURSIVE removeItem(_, _)
\* App.tsx:381-387
removeItem(items, fileId) ==
    IF items = <<>> THEN <<>>
    ELSE LET item == Head(items) IN
         IF item.id = fileId THEN removeItem(Tail(items), fileId)
         ELSE <<[item EXCEPT !.children = removeItem(@, fileId)]>>
              \o removeItem(Tail(items), fileId)

RECURSIVE updateNode(_, _, _)
\* App.tsx:310-316
updateNode(nodes, id, newName) ==
    [i \in 1..Len(nodes) |->
        IF nodes[i].id = id THEN [nodes[i] EXCEPT !.name = newName]
        ELSE [nodes[i] EXCEPT !.children = updateNode(@, id, newName)]]

\* App.tsx:410-417
getPdfCount(nodes) == Cardinality({i \in 1..Len(Flatten(nodes)) : Flatten(nodes)[i].type = "pdf"})

----------------------------------------------------------------------------
(* Snapshots, App.tsx:204-245 *)

RECURSIVE collectBytes(_, _)
\* App.tsx:206-211: Map.set in visiting order, children after their parent
collectBytes(nodes, m) ==
    IF nodes = <<>> THEN m
    ELSE LET n == Head(nodes)
             m1 == IF Truthy(n.data) THEN Put(m, n.id, n.data) ELSE m
         IN collectBytes(Tail(nodes), collectBytes(n.children, m1))

\* a copy of the top level only, without the folders' contents
JsonCopyTop(nodes) ==
    [i \in 1..Len(nodes) |->
        [nodes[i] EXCEPT !.data = JsonOfData(@), !.children = <<>>]]

RECURSIVE JsonCopyTree(_)
\* JSON.parse(JSON.stringify(fileTree)): structure is copied, a byte buffer
\* comes back as a plain object
JsonCopyTree(nodes) ==
    [i \in 1..Len(nodes) |->
        [nodes[i] EXCEPT !.data = JsonOfData(@), !.children = JsonCopyTree(@)]]

\* JSON.parse(JSON.stringify(map)) of the annotation maps: every field is a
\* finite number, a string or a boolean, and an unset optional field stays
\* unset, so the copy is a value equal to the original.
JsonCopyMap(m) == [k \in DOMAIN m |-> [i \in 1..Len(m[k]) |-> m[k][i]]]

WorkspaceState(tree, anns, imgs, patches) ==
    [fileTree |-> JsonCopyTree(tree),
     pdfBytesMap |-> collectBytes(tree, EmptyMap),
     annotationsByFile |-> JsonCopyMap(anns),
     imageAnnotationsByFile |-> JsonCopyMap(imgs),
     textPatchesByFile |-> JsonCopyMap(patches)]

getCurrentWorkspaceState ==
    WorkspaceState(fileTree, annotationsByFile, imageAnnotationsByFile, textPatchesByFile)

\* a restore that leaves the structural copy as it is
restoreWithoutBytes(nodes, bytesMap) == nodes

RECURSIVE restoreBinaryData(_, _)
\* App.tsx:222-228
restoreBinaryData(nodes, bytesMap) ==
    [i \in 1..Len(nodes) |->
        [nodes[i] EXCEPT
            !.data = IF nodes[i].id \in DOMAIN bytesMap THEN bytesMap[nodes[i].id] ELSE @,
            !.children = restoreBinaryData(@, bytesMap)]]

\* a push that keeps the entries beyond the cursor
pushedWithoutTrim(h, idx, ws) == Append(h, ws)

\* App.tsx:232-235: the log after pushHistory
pushedHistory(h, idx, ws) ==
    Append(IF idx >= 0 THEN SubSeq(h, 1, Min(idx + 1, Len(h))) ELSE <<>>, ws)

canUndo == historyIndex >= 0
canRedo == historyIndex < Len(history) - 1

\* the live workspace: what a snapshot captures
Live == [fileTree |-> fileTree,
         annotationsByFile |-> annotationsByFile,
         imageAnnotationsByFile |-> imageAnnotationsByFile,
         textPatchesByFile |-> textPatchesByFile]

----------------------------------------------------------------------------
(* Entities, types.ts:27-82.  The style block is represented by its bold    *)
(* flag; the other style fields are copied and updated in the same way.     *)

TextAnnotation(id, page, x, y, width, height, text, html, bold) ==
    [id |-> id, page |-> page, x |-> x, y |-> y, width |-> width, height |-> height,
     text |-> text, html |-> html, bold |-> bold]

EditTextPatch(id, fileId, page, bbox, originalText, newText, html, bold) ==
    [id |-> id, fileId |-> fileId, page |-> page, bbox |-> bbox,
     originalText |-> originalText, newText |-> newText, html |-> html, bold |-> bold]

ImageAnnotation(id, page, x, y, width, height, dataUrl) ==
    [id |-> id, page |-> page, x |-> x, y |-> y, width |-> width, height |-> height,
     dataUrl |-> dataUrl]

BBox(x, y, width, height) == [x |-> x, y |-> y, width |-> width, height |-> height]

Placeholder == "New Text"

\* String.prototype.trim on the texts that occur here
RECURSIVE trimStart(_)
trimStart(t) ==
    IF Len(t) > 0 /\ SubSeq(t, 1, 1) = " " THEN trimStart(SubSeq(t, 2, Len(t))) ELSE t

RECURSIVE trimEnd(_)
trimEnd(t) ==
    IF Len(t) > 0 /\ SubSeq(t, Len(t), Len(t)) = " "
       THEN trimEnd(SubSeq(t, 1, Len(t) - 1)) ELSE t

trim(t) == trimEnd(trimStart(t))

\* PdfViewer.tsx:125-131 on the drafts a user types here: tags are stripped,
\* the result is trimmed
normalizeEditedText(raw) ==
    CASE raw = "<b>Hi</b> " -> "Hi"
      [] raw = " " -> ""
      [] OTHER -> raw

Drafts == {" ", "<b>Hi</b> "}

\* rotation={pageRotations[currentPage] || 0}, App.tsx:676
rotation == IF currentPage \in DOMAIN pageRotations THEN pageRotations[currentPage] ELSE 0

\* the viewer shows a page (and its overlays) only for a file with live data
\* (PdfViewer.tsx:918-933, fileUrl)
PageShown == activeFile.type # "none" /\ Truthy(activeFile.data)

activeAnnotations == Get(annotationsByFile, activeFile.id)
activePatches == Get(textPatchesByFile, activeFile.id)
activeImages == Get(imageAnnotationsByFile, activeFile.id)

\* pageOverlays, PdfViewer.tsx:793-871: the display rect of each entity of
\* the current page
annOverlay(a) == transformRect(a.x, a.y, OrElse(a.width, DefaultAnnWidth),
                               OrElse(a.height, DefaultHeight), rotation)
patchOverlay(p) == transformRect(p.bbox.x, p.bbox.y, p.bbox.width, p.bbox.height, rotation)
imageOverlay(g) == transformRect(g.x, g.y, g.width, g.height, rotation)

OnPage(s) == SelectSeq(s, LAMBDA e : e.page = currentPage)

\* the effect of PdfViewer.tsx:940-952: editing ends when the selection
\* moves away from the entity being edited
editingAfter(selAnn, selPatch, editing) ==
    LET selectedId == IF selAnn # 0 THEN selAnn ELSE selPatch
    IN IF selectedId # 0 /\ selectedId = editing THEN editing ELSE 0

----------------------------------------------------------------------------
(* Run resolver and compositor, pdfService.ts:61-413.  Lengths on a page    *)
(* are hundredths of a point.                                               *)

\* pixelsToPoints, pdfService.ts:74-76: 0.75 points per pixel
pixelsToPoints(px) == px * 75

FontSizePx == 14    \* the font size of every entity here (App.tsx:84)
PaddingXPx == 6
PaddingYPx == 4

\* page.getSize() of every page here
PageWidth == 60000
PageHeight == 80000

\* What div.innerHTML = html turns the markup strings of this model into:
\* the token stream of the HTML parser.
Open(tag, style) == [t |-> "open", v |-> tag, style |-> style]
Close(tag) == [t |-> "close", v |-> tag, style |-> ""]
Void(tag) == [t |-> "void", v |-> tag, style |-> ""]
Chars(s) == [t |-> "text", v |-> s, style |-> ""]
Entity(s) == [t |-> "entity", v |-> s, style |-> ""]

Markup(html) ==
    CASE html = "<b>Hi</b> " -> <<Open("B", ""), Chars("Hi"), Close("B"), Chars(" ")>>
      [] html = "<br>" -> <<Void("BR")>>
      [] html = "<b></b>" -> <<Open("B", ""), Close("B")>>
      [] html = "a&amp;b" -> <<Chars("a"), Entity("&amp;"), Chars("b")>>
      [] html = "1 &lt; 2" -> <<Chars("1 "), Entity("&lt;"), Chars(" 2")>>
      [] html = "<u>a</u><u>b</u>" ->
            <<Open("U", ""), Chars("a"), Close("U"), Open("U", ""), Chars("b"), Close("U")>>
      [] html = "<i>a<s>b</s></i>c" ->
            <<Open("I", ""), Chars("a"), Open("S", ""), Chars("b"), Close("S"),
              Close("I"), Chars("c")>>
      [] html = "<span style=\"font-weight: bold;\">x</span>y<br>" ->
            <<Open("SPAN", "font-weight: bold"), Chars("x"), Close("SPAN"), Chars("y"),
              Void("BR")>>
      [] html = "" -> <<>>
      [] OTHER -> <<Chars(html)>>

\* the character an entity reference stands for
decoded(entity) ==
    CASE entity = "&amp;" -> "&"
      [] entity = "&lt;" -> "<"
      [] OTHER -> entity

\* the flags walk() hands to the children of an element, pdfService.ts:112-115
Flags(bold, italic, underline, strike) ==
    [bold |-> bold, italic |-> italic, underline |-> underline, strike |-> strike]

childFlags(f, tagName, style) ==
    Flags(f.bold \/ tagName \in {"B", "STRONG"} \/ style = "font-weight: bold",
          f.italic \/ tagName \in {"I", "EM"} \/ style = "font-style: italic",
          f.underline \/ tagName = "U" \/ style = "text-decoration: underline",
          f.strike \/ tagName \in {"STRIKE", "S"} \/ style = "text-decoration: line-through")

Segment(text, f) ==
    [text |-> text, bold |-> f.bold, italic |-> f.italic, underline |-> f.underline,
     strike |-> f.strike]

\* a push that joins a text to the last segment when it continues its style
pushedMerging(segments, text, stack) ==
    IF text = "" THEN segments
    ELSE IF segments # <<>> /\ Segment("", Head(stack))
                                  = [segments[Len(segments)] EXCEPT !.text = ""]
    THEN [segments EXCEPT ![Len(segments)].text = @ \o text]
    ELSE Append(segments, Segment(text, Head(stack)))

\* segments.push of a text node, pdfService.ts:94-105: the node's text under
\* the flags of the innermost open element; there is no empty text node
pushed(segments, text, stack) ==
    IF text = "" THEN segments ELSE Append(segments, Segment(text, Head(stack)))

RECURSIVE walk(_, _, _, _)
\* walk, pdfService.ts:93-121, over the tree the parser builds from the
\* tokens: stack holds the flags of the open elements (innermost first),
\* text the characters of the text node being read
walk(tokens, stack, text, segments) ==
    IF tokens = <<>> THEN pushed(segments, text, stack)
    ELSE LET k == Head(tokens)
             rest == Tail(tokens)
         IN CASE k.t = "text" -> walk(rest, stack, text \o k.v, segments)
              [] k.t = "entity" -> walk(rest, stack, text \o decoded(k.v), segments)
              [] k.t = "open" ->
                    walk(rest, <<childFlags(Head(stack), k.v, k.style)>> \o stack, "",
                         pushed(segments, text, stack))
              [] k.t = "void" -> walk(rest, stack, "", pushed(segments, text, stack))
              [] k.t = "close" ->
                    IF Len(stack) > 1
                       THEN walk(rest, Tail(stack), "", pushed(segments, text, stack))
                       ELSE walk(rest, stack, text, segments)

\* parseHTMLFormatting, pdfService.ts:79-125
parseHTMLFormatting(html) ==
    IF html = "" THEN <<>>
    ELSE walk(Markup(html), <<Flags(FALSE, FALSE, FALSE, FALSE)>>, "", <<>>)

\* an optional boolean field of an entity:  !!e.field
Flag(e, field) == IF field \in DOMAIN e THEN e[field] ELSE FALSE

\* a || b  on strings
OrText(a, b) == IF a = "" THEN b ELSE a

\* drawContent, pdfService.ts:250-285: the segments handed to drawSegments
drawContent(html, fallbackText, baseBold, baseItalic) ==
    LET fallback == << Segment(fallbackText, Flags(baseBold, baseItalic, FALSE, FALSE)) >>
        segments == parseHTMLFormatting(html)
    IN IF html = "" THEN fallback
       ELSE IF Len(segments) = 0 THEN fallback
       ELSE segments

\* a text with a character that the standard fonts cannot encode: drawText
\* and widthOfTextAtSize throw on it
Unencodable == {"{U+4F60}"}
\* a data URL whose payload is neither a PNG nor a JPEG: embedJpg throws
Undecodable == {"data:image/png;base64,AAAA"}

\* the outcome of an asynchronous call: the bytes it resolves to, or a rejection
Resolved(pages) == [ok |-> TRUE, pages |-> pages]
Rejected == [ok |-> FALSE, pages |-> <<>>]

drawOn(doc, pageNo, ops) == [doc EXCEPT !.pages[pageNo].drawn = @ \o ops]

\* drawSegments, pdfService.ts:182-247: one drawText per segment (with the
\* underline and strike lines of the segment), all on the same baseline
drawSegments(id, segments, y, h) ==
    [i \in 1..Len(segments) |->
        [kind |-> "text", of |-> id, text |-> segments[i].text,
         bold |-> segments[i].bold, italic |-> segments[i].italic,
         underline |-> segments[i].underline, strike |-> segments[i].strike,
         y |-> y + h - pixelsToPoints(PaddingYPx) - pixelsToPoints(FontSizePx)]]

drawable(segments) == \A i \in 1..Len(segments) : segments[i].text \notin Unencodable

\* pdfService.ts:292-307: the whiteout of a patch, in page points
whiteout(patch) ==
    LET x == (patch.bbox.x * PageWidth) \div Unit
        w == (patch.bbox.width * PageWidth) \div Unit
        h == (patch.bbox.height * PageHeight) \div Unit
        y == PageHeight - (patch.bbox.y * PageHeight) \div Unit - h
    IN [kind |-> "rectangle", of |-> patch.id, x |-> x, y |-> y, width |-> w, height |-> h]

\* pdfService.ts:330-356: the white background of a free text annotation
background(ann) ==
    LET x == (ann.x * PageWidth) \div Unit
        maxWidth == (OrElse(ann.width, DefaultAnnWidth) * PageWidth) \div Unit
        fontSize == pixelsToPoints(FontSizePx)
        lineHeight == (fontSize * 13) \div 10
        avgCharWidth == fontSize \div 2
        textWidth == Len(ann.text) * avgCharWidth
        contentWidth == maxWidth - pixelsToPoints(PaddingXPx) * 2
        estimatedLines == IF contentWidth > 0
                             THEN Max(1, (textWidth + contentWidth - 1) \div contentWidth)
                             ELSE 1
        estimatedHeight == estimatedLines * lineHeight + pixelsToPoints(PaddingYPx) * 2
        y == PageHeight - (ann.y * PageHeight) \div Unit - estimatedHeight
    IN [kind |-> "rectangle", of |-> ann.id, x |-> x, y |-> y, width |-> maxWidth,
        height |-> estimatedHeight]

\* pdfService.ts:378-405: the drawImage of an image annotation
drawImage(imgAnn) ==
    LET x == (imgAnn.x * PageWidth) \div Unit
        w == (imgAnn.width * PageWidth) \div Unit
        h == (imgAnn.height * PageHeight) \div Unit
        y == PageHeight - (imgAnn.y * PageHeight) \div Unit - h
    IN [kind |-> "image", of |-> imgAnn.id, x |-> x, y |-> y, width |-> w, height |-> h]

\* a guard that lets only the entities of the first page through
onFirstPage(doc, page) == page = 1

InRange(doc, page) == ~(page < 1 \/ page > Len(doc.pages))

RECURSIVE applyPatches(_, _)
\* 1. Apply Text Patches, pdfService.ts:289-323
applyPatches(doc, patches) ==
    IF patches = <<>> \/ ~doc.ok THEN doc
    ELSE LET patch == Head(patches)
             rect == whiteout(patch)
             segments == drawContent(OrText(patch.html, patch.newText), patch.newText,
                                     Flag(patch, "bold"), Flag(patch, "italic"))
         IN IF ~InRange(doc, patch.page) THEN applyPatches(doc, Tail(patches))
            ELSE IF ~drawable(segments) THEN Rejected
            ELSE applyPatches(
                    drawOn(doc, patch.page,
                           <<rect>> \o drawSegments(patch.id, segments, rect.y, rect.height)),
                    Tail(patches))

RECURSIVE applyAnnotations(_, _)
\* 2. Apply Free Text Annotations, pdfService.ts:326-372
applyAnnotations(doc, annotations) ==
    IF annotations = <<>> \/ ~doc.ok THEN doc
    ELSE LET ann == Head(annotations)
             rect == background(ann)
             segments == drawContent(OrText(ann.html, ann.text), ann.text,
                                     Flag(ann, "bold"), Flag(ann, "italic"))
         IN IF ~InRange(doc, ann.page) THEN applyAnnotations(doc, Tail(annotations))
            ELSE IF ~drawable(segments) THEN Rejected
            ELSE applyAnnotations(
                    drawOn(doc, ann.page,
                           <<rect>> \o drawSegments(ann.id, segments, rect.y, rect.height)),
                    Tail(annotations))

RECURSIVE applyImagesOrAbort(_, _)
\* an image loop without the try/catch: an image that cannot be decoded
\* rejects the composite
applyImagesOrAbort(doc, imageAnnotations) ==
    IF imageAnnotations = <<>> \/ ~doc.ok THEN doc
    ELSE LET imgAnn == Head(imageAnnotations)
         IN IF ~InRange(doc, imgAnn.page) THEN applyImagesOrAbort(doc, Tail(imageAnnotations))
            ELSE IF imgAnn.dataUrl \in Undecodable THEN Rejected
            ELSE applyImagesOrAbort(drawOn(doc, imgAnn.page, <<drawImage(imgAnn)>>),
                                    Tail(imageAnnotations))

RECURSIVE applyImages(_, _)
\* 3. Apply Image Annotations, pdfService.ts:375-410
applyImages(doc, imageAnnotations) ==
    IF imageAnnotations = <<>> \/ ~doc.ok THEN doc
    ELSE LET imgAnn == Head(imageAnnotations)
         IN IF ~InRange(doc, imgAnn.page) THEN applyImages(doc, Tail(imageAnnotations))
            ELSE IF imgAnn.dataUrl \in Undecodable
            THEN applyImages(doc, Tail(imageAnnotations))
            ELSE applyImages(drawOn(doc, imgAnn.page, <<drawImage(imgAnn)>>),
                             Tail(imageAnnotations))

\* 0. Apply Page Rotations, pdfService.ts:171-179
applyRotations(pages, rotations) ==
    [i \in 1..Len(pages) |->
        IF i \in DOMAIN rotations /\ rotations[i] # 0
           THEN [pages[i] EXCEPT !.rotation = @ + rotations[i]]
           ELSE pages[i]]

\* a compositor that bakes the images before the patches and the annotations
savePdfImagesFirst(pdfBytes, annotations, patches, rotations, imageAnnotations) ==
    IF ~pdfBytes.pdf THEN Rejected
    ELSE applyAnnotations(
            applyPatches(
               applyImages(Resolved(applyRotations(pdfBytes.pages, rotations)),
                           imageAnnotations),
               patches),
            annotations)

\* savePdfWithAnnotations, pdfService.ts:127-413
savePdfWithAnnotations(pdfBytes, annotations, patches, rotations, imageAnnotations) ==
    IF ~pdfBytes.pdf THEN Rejected
    ELSE applyImages(
            applyAnnotations(
               applyPatches(Resolved(applyRotations(pdfBytes.pages, rotations)), patches),
               annotations),
            imageAnnotations)

\* the record of one call of savePdfWithAnnotations
Call(pc, pdfBytes, annotations, patches, rotations, imageAnnotations, result) ==
    [pc |-> pc, pdfBytes |-> pdfBytes, annotations |-> annotations, patches |-> patches,
     pageRotations |-> rotations, imageAnnotations |-> imageAnnotations, result |-> result]

NoComposite == Call("off", NotAPdf, <<>>, <<>>, EmptyMap, <<>>, Rejected)

\* pageOverlays, PdfViewer.tsx:793-871, as a function of the viewer's props:
\* the overlays of the page shown, each with its kind and its display rect
overlayOf(e, kind, rect) == [id |-> e.id, kind |-> kind, page |-> e.page, rect |-> rect]

pageOverlays(annotations, patches, imageAnnotations, page, rot) ==
    LET onPage(s) == SelectSeq(s, LAMBDA e : e.page = page)
        annsOn == onPage(annotations)
        ptsOn == onPage(patches)
        imgsOn == onPage(imageAnnotations)
        anns == [i \in 1..Len(annsOn) |->
                    overlayOf(annsOn[i], "annotation",
                              transformRect(annsOn[i].x, annsOn[i].y,
                                            OrElse(annsOn[i].width, DefaultAnnWidth),
                                            OrElse(annsOn[i].height, DefaultHeight), rot))]
        pts == [i \in 1..Len(ptsOn) |->
                   overlayOf(ptsOn[i], "patch",
                             transformRect(ptsOn[i].bbox.x, ptsOn[i].bbox.y,
                                           ptsOn[i].bbox.width, ptsOn[i].bbox.height, rot))]
        imgs == [i \in 1..Len(imgsOn) |->
                    overlayOf(imgsOn[i], "image",
                              transformRect(imgsOn[i].x, imgsOn[i].y, imgsOn[i].width,
                                            imgsOn[i].height, rot))]
    IN pts \o anns \o imgs

NoProjection == [pc |-> "off", page |-> 0, overlays |-> <<>>]
NoRuns == [pc |-> "off", html |-> "", text |-> "", style |-> Flags(FALSE, FALSE, FALSE, FALSE),
           segments |-> <<>>]

\* the merge or split in flight: the ids or the file it was started on, what
\* its service calls resolve to, how many pages had been copied by then, and
\* the folder its result goes to
Job(kind, pc, ids, ok, outputs, copied, parent, error) ==
    [kind |-> kind, pc |-> pc, ids |-> ids, ok |-> ok, outputs |-> outputs,
     copied |-> copied, parent |-> parent, error |-> error]
NoJob == Job("none", "off", <<>>, FALSE, <<>>, 0, 0, "")

\* one call of savePdfWithAnnotations that has not resolved: the handler that
\* made it, the document it bakes and, for a merge, the ids still to bake
Flight(by, doc, rest) == [by |-> by, doc |-> doc, rest |-> rest]

\* pendingSignature (url, "" for null), the image loads the placement effect
\* has started and that have not fired, each with the render it closed over,
\* and two counters: the signatures completed, and the calls of
\* onAddImageAnnotation their loads have made
NoSignature == [url |-> "", loads |-> <<>>, completed |-> 0, placed |-> 0]

----------------------------------------------------------------------------
(* Observer.  mark remembers, for the streak of captures that is running,   *)
(* the live state before each capture (bases), how many undos have followed *)
(* them (undone), and the live state before the last undo (preUndo).        *)

Idle == [phase |-> "idle", bases |-> <<>>, undone |-> 0, preUndo |-> <<>>]

markCapture ==
    [phase |-> "cap",
     bases |-> IF mark.phase = "cap" THEN Append(mark.bases, Live) ELSE <<Live>>,
     undone |-> 0, preUndo |-> <<>>]

markOther == IF mark.phase = "cap" THEN mark ELSE Idle

markUndo ==
    IF mark.phase \in {"cap", "undo"} /\ mark.undone < Len(mark.bases)
       THEN [phase |-> "undo", bases |-> mark.bases, undone |-> mark.undone + 1,
             preUndo |-> <<Live>>]
       ELSE [phase |-> "undo", bases |-> <<>>, undone |-> 0, preUndo |-> <<Live>>]

markRedo ==
    IF mark.phase = "undo"
       THEN [phase |-> "undoRedo", bases |-> <<>>, undone |-> 0, preUndo |-> mark.preUndo]
       ELSE Idle

Op(name, ok) == [name |-> name, ok |-> ok]

----------------------------------------------------------------------------
(* Initial state: PdfWorkspaceContent's useState initialisers *)

NoUpload == [active |-> FALSE, isPdf |-> FALSE, payload |-> NotAPdf, name |-> "", targetId |-> 0]
NoXf == [pc |-> "off", rect |-> Rect(0, 0, 0, 0), rot |-> 0,
         shown |-> Rect(0, 0, 0, 0), back |-> Rect(0, 0, 0, 0)]

InitWorkspace ==
    /\ fileTree = INITIAL_FILE_SYSTEM
    /\ annotationsByFile = EmptyMap
    /\ imageAnnotationsByFile = EmptyMap
    /\ textPatchesByFile = EmptyMap
    /\ history = <<>>
    /\ historyIndex = -1
    /\ activeFile = NoFile
    /\ currentPage = 1
    /\ pageRotations = EmptyMap
    /\ isTextMode = FALSE
    /\ selectedAnnotationId = 0
    /\ selectedPatchId = 0
    /\ editingId = 0
    /\ draftText = ""
    /\ pendingUpload = NoUpload
    /\ textStyle = [bold |-> FALSE]
    /\ nextNodeId = 1
    /\ nextEntId = 1
    /\ moves = 0
    /\ captures = 0
    /\ op = Op("init", TRUE)
    /\ mark = Idle
    /\ mergeQueue = <<>>
    /\ job = NoJob
    /\ flight = {}
    /\ signature = NoSignature

Init ==
    /\ InitWorkspace
    /\ userIsPro \in BOOLEAN
    /\ xf = NoXf
    /\ detected = EmptyMap
    /\ composite = NoComposite
    /\ projected = NoProjection
    /\ runs = NoRuns

----------------------------------------------------------------------------
(* History manager, App.tsx:230-267 *)

treeVars == <<fileTree, pendingUpload, nextNodeId>>
\* the id source, with the variables that only patch creation and the
\* compositor write
quietVars == <<nextEntId, detected, composite, projected, runs, mergeQueue, job, flight, signature>>
entVars == <<annotationsByFile, imageAnnotationsByFile, textPatchesByFile, quietVars, moves>>
histVars == <<history, historyIndex, captures>>
viewVars == <<activeFile, currentPage, pageRotations>>
editVars == <<isTextMode, selectedAnnotationId, selectedPatchId, editingId, draftText, textStyle>>
fixedVars == <<userIsPro, xf>>

\* room left in the explored log for one more entry after a capture
CanCapture == captures < MaxCaptures /\ historyIndex + 2 <= MaxHistory

\* pushHistory(), App.tsx:230-237
pushHistory ==
    /\ history' = pushedHistory(history, historyIndex, getCurrentWorkspaceState)
    /\ historyIndex' = historyIndex + 1
    /\ captures' = captures + 1
    /\ op' = Op("capture", TRUE)
    /\ mark' = markCapture

\* restoreWorkspaceState(ws), App.tsx:239-245
restoreWorkspaceState(ws) ==
    /\ fileTree' = restoreBinaryData(ws.fileTree, ws.pdfBytesMap)
    /\ annotationsByFile' = ws.annotationsByFile
    /\ imageAnnotationsByFile' = ws.imageAnnotationsByFile
    /\ textPatchesByFile' = ws.textPatchesByFile

\* an undo that writes the live state over the last entry
undoneOverTail(h, idx, ws) == IF idx = Len(h) - 1 THEN [h EXCEPT ![Len(h)] = ws] ELSE h

\* the log after handleUndo, App.tsx:252-255
undoneHistory(h, idx, ws) == IF idx = Len(h) - 1 THEN Append(h, ws) ELSE h

\* handleUndo, App.tsx:250-259
handleUndo ==
    IF ~canUndo \/ historyIndex >= Len(history)
       \* history[historyIndex] is undefined past the log, and
       \* restoreWorkspaceState throws on it before any state is set
       THEN /\ op' = Op("undo", FALSE)
            /\ mark' = Idle
            /\ UNCHANGED <<treeVars, entVars, histVars, viewVars, editVars, fixedVars>>
       ELSE /\ Len(undoneHistory(history, historyIndex, getCurrentWorkspaceState)) <= MaxHistory
            /\ history' = undoneHistory(history, historyIndex, getCurrentWorkspaceState)
            /\ restoreWorkspaceState(history[historyIndex + 1])
            /\ historyIndex' = historyIndex - 1
            /\ op' = Op("undo", TRUE)
            /\ mark' = markUndo
            /\ UNCHANGED <<pendingUpload, nextNodeId, quietVars, moves, captures,
                           viewVars, editVars, fixedVars>>

\* a redo that stays on the entry under the cursor
redoIndexStuck(idx) == IF idx > 0 THEN idx ELSE 0

\* the entry handleRedo restores, App.tsx:262
redoIndex(idx) == idx + 1

\* handleRedo, App.tsx:261-267
handleRedo ==
    LET newIndex == redoIndex(historyIndex) IN
    IF newIndex >= Len(history)
       THEN /\ op' = Op("redo", FALSE)
            /\ mark' = Idle
            /\ UNCHANGED <<treeVars, entVars, histVars, viewVars, editVars, fixedVars>>
       ELSE /\ restoreWorkspaceState(history[newIndex + 1])
            /\ historyIndex' = newIndex
            /\ op' = Op("redo", TRUE)
            /\ mark' = markRedo
            /\ UNCHANGED <<history, captures, pendingUpload, nextNodeId, quietVars, moves,
                           viewVars, editVars, fixedVars>>

----------------------------------------------------------------------------
(* File tree handlers *)

\* handleSelectFile(file, false), App.tsx:351-370
handleSelectFile(file) ==
    /\ activeFile' = FileOf(file)
    /\ IF file.type = "folder"
          THEN UNCHANGED <<currentPage, pageRotations>>
          ELSE currentPage' = 1 /\ pageRotations' = EmptyMap
    /\ selectedAnnotationId' = 0
    /\ selectedPatchId' = 0
    /\ editingId' = 0

SelectFile(id) ==
    /\ id \in NodeIds(fileTree)
    /\ handleSelectFile(findNodeById(fileTree, id))
    /\ op' = Op("other", TRUE)
    /\ mark' = markOther
    /\ UNCHANGED <<treeVars, entVars, histVars, isTextMode, draftText, textStyle, fixedVars>>

\* handleUploadFiles with a one-file list, up to its await, App.tsx:419-436.
\* uploadFiles takes activeFile and fileSystem from the render of the call
\* (usePdfOperations.ts:138-142), so the target folder is fixed here.
UploadStart(payload, name, isPdf) ==
    /\ ~pendingUpload.active
    /\ userIsPro \/ getPdfCount(fileTree) < 1
    /\ isPdf => nextNodeId <= MaxNodes
    /\ CanCapture
    /\ pushHistory
    /\ pendingUpload' =
          [active |-> TRUE, isPdf |-> isPdf, payload |-> payload, name |-> name,
           targetId |-> IF activeFile.type = "none" THEN 0
                        ELSE IF activeFile.type = "folder" THEN activeFile.id
                        ELSE findParentId(activeFile.id, fileTree)]
    /\ UNCHANGED <<fileTree, nextNodeId, entVars, viewVars, editVars, fixedVars>>

\* uploadFiles after file.arrayBuffer() resolves, usePdfOperations.ts:121-145,
\* with addItemsToFolder, usePdfOperations.ts:69-87
UploadFinish ==
    /\ pendingUpload.active
    /\ pendingUpload' = NoUpload
    /\ op' = Op("other", TRUE)
    /\ mark' = markOther
    /\ IF pendingUpload.isPdf
          THEN LET item == Node(nextNodeId, pendingUpload.name, "pdf",
                                Bytes(pendingUpload.payload), <<>>)
               IN /\ nextNodeId' = nextNodeId + 1
                  /\ fileTree' = insertNode(fileTree, item, pendingUpload.targetId)
                  /\ handleSelectFile(item)
          ELSE UNCHANGED <<fileTree, nextNodeId, viewVars,
                           selectedAnnotationId, selectedPatchId, editingId>>
    /\ UNCHANGED <<entVars, histVars, isTextMode, draftText, textStyle, fixedVars>>

\* handleDeleteFile and, from the confirmation dialog, confirmDelete,
\* App.tsx:372-395
ConfirmDelete(id) ==
    /\ id \in NodeIds(fileTree)
    /\ CanCapture
    /\ pushHistory
    /\ fileTree' = removeItem(fileTree, id)
    /\ activeFile' = IF activeFile.id = id THEN NoFile ELSE activeFile
    /\ UNCHANGED <<pendingUpload, nextNodeId, entVars, currentPage, pageRotations,
                   editVars, fixedVars>>

\* handleRenameItem, App.tsx:306-322
RenameItem(id, newName) ==
    /\ id \in NodeIds(fileTree)
    /\ CanCapture
    /\ pushHistory
    /\ fileTree' = updateNode(fileTree, id, newName)
    /\ activeFile' = IF activeFile.id = id THEN [activeFile EXCEPT !.name = newName]
                     ELSE activeFile
    /\ UNCHANGED <<pendingUpload, nextNodeId, entVars, currentPage,
                   pageRotations, editVars, fixedVars>>

\* a quarter turn that is not reduced
rotatedFurther(deg) == deg + 90

\* handleRotate, App.tsx:565-567
rotated(deg) == (deg + 90) % 360

Rotate ==
    /\ activeFile.type # "none"
    /\ pageRotations' = Put(pageRotations, currentPage, rotated(rotation))
    /\ op' = Op("other", TRUE)
    /\ mark' = markOther
    /\ UNCHANGED <<treeVars, entVars, histVars, activeFile, currentPage, editVars, fixedVars>>

----------------------------------------------------------------------------
(* Annotation model handlers, App.tsx:439-492 *)

HasId(s, id) == \E i \in 1..Len(s) : s[i].id = id
ById(s, id) == s[CHOOSE i \in 1..Len(s) : s[i].id = id]

\* handleAddAnnotation, App.tsx:439-443 (after its activeFile guard)
handleAddAnnotation(ann) ==
    /\ pushHistory
    /\ annotationsByFile' = Put(annotationsByFile, activeFile.id, Append(activeAnnotations, ann))

\* handleUpdateAnnotation, App.tsx:445-448
updatedAnnotations(m, id, updates) ==
    LET current == Get(m, activeFile.id) IN
    Put(m, activeFile.id,
        [i \in 1..Len(current) |->
            IF current[i].id = id THEN Merge(current[i], updates) ELSE current[i]])

\* handleAddImageAnnotation, App.tsx:457-461
handleAddImageAnnotation(ann) ==
    /\ pushHistory
    /\ imageAnnotationsByFile' =
          Put(imageAnnotationsByFile, activeFile.id, Append(activeImages, ann))

\* handleAddPatch, App.tsx:474-479
handleAddPatch(patch) ==
    /\ pushHistory
    /\ textPatchesByFile' = Put(textPatchesByFile, activeFile.id, Append(activePatches, patch))

\* the filter of App.tsx:453, 471 and of the onDelete lambdas of App.tsx:676
withoutId(m, id) ==
    Put(m, activeFile.id, SelectSeq(Get(m, activeFile.id), LAMBDA a : a.id # id))

\* handleToggleTextMode's pruning, App.tsx:181-198
keptAnnotations(m) ==
    LET current == Get(m, activeFile.id)
        cleaned == SelectSeq(current, LAMBDA a : trim(a.text) # "" /\ trim(a.text) # Placeholder)
    IN IF Len(cleaned) = Len(current) THEN m ELSE Put(m, activeFile.id, cleaned)

keptPatches(m) ==
    LET current == Get(m, activeFile.id)
        cleaned == SelectSeq(current, LAMBDA q : trim(q.newText) # ""
                                                /\ trim(q.newText) # Placeholder
                                                /\ trim(q.newText) # q.originalText)
    IN IF Len(cleaned) = Len(current) THEN m ELSE Put(m, activeFile.id, cleaned)

\* handleToggleTextMode, App.tsx:177-202
ToggleTextMode(enable) ==
    /\ activeFile.type # "none"
    /\ isTextMode' = enable
    /\ IF ~enable
          THEN /\ annotationsByFile' = keptAnnotations(annotationsByFile)
               /\ textPatchesByFile' = keptPatches(textPatchesByFile)
               /\ selectedAnnotationId' = 0
               /\ selectedPatchId' = 0
               /\ editingId' = 0
          ELSE UNCHANGED <<annotationsByFile, textPatchesByFile, selectedAnnotationId,
                           selectedPatchId, editingId>>
    /\ op' = Op("other", TRUE)
    /\ mark' = markOther
    /\ UNCHANGED <<treeVars, imageAnnotationsByFile, quietVars, moves, histVars, viewVars,
                   draftText, textStyle, fixedVars>>

\* handleStyleChange, App.tsx:486-492
StyleChange(newStyle) ==
    /\ activeFile.type # "none"
    /\ isTextMode
    /\ textStyle' = newStyle
    /\ IF selectedAnnotationId # 0 \/ selectedPatchId # 0
          THEN CanCapture /\ pushHistory
          ELSE op' = Op("other", TRUE) /\ mark' = markOther /\ UNCHANGED histVars
    /\ annotationsByFile' =
          IF selectedAnnotationId # 0
             THEN updatedAnnotations(annotationsByFile, selectedAnnotationId,
                                     newStyle)
             ELSE annotationsByFile
    /\ textPatchesByFile' =
          IF selectedPatchId # 0
             THEN updatedAnnotations(textPatchesByFile, selectedPatchId,
                                     newStyle)
             ELSE textPatchesByFile
    /\ UNCHANGED <<treeVars, imageAnnotationsByFile, quietVars, moves, viewVars, isTextMode,
                   selectedAnnotationId, selectedPatchId, editingId, draftText, fixedVars>>

\* handleDeleteAnnotation, App.tsx:450-455
DeleteAnnotation ==
    /\ activeFile.type # "none"
    /\ selectedAnnotationId # 0
    /\ CanCapture
    /\ pushHistory
    /\ annotationsByFile' = withoutId(annotationsByFile, selectedAnnotationId)
    /\ selectedAnnotationId' = 0
    /\ editingId' = editingAfter(0, selectedPatchId, editingId)
    /\ UNCHANGED <<treeVars, imageAnnotationsByFile, textPatchesByFile, quietVars, moves, viewVars,
                   isTextMode, selectedPatchId, draftText, textStyle, fixedVars>>

\* handleDeleteImageAnnotation, App.tsx:468-472, from the delete button of a
\* selected image overlay; selecting an image clears the text selection
\* (PdfViewer.tsx:955-960)
DeleteImageAnnotation(id) ==
    /\ PageShown
    /\ HasId(OnPage(activeImages), id)
    /\ CanCapture
    /\ pushHistory
    /\ imageAnnotationsByFile' = withoutId(imageAnnotationsByFile, id)
    /\ selectedAnnotationId' = 0
    /\ selectedPatchId' = 0
    /\ editingId' = 0
    /\ UNCHANGED <<treeVars, annotationsByFile, textPatchesByFile, quietVars, moves, viewVars,
                   isTextMode, draftText, textStyle, fixedVars>>

----------------------------------------------------------------------------
(* Viewer handlers, PdfViewer.tsx.  The page is PagePx pixels on each side. *)

PagePx == 1000
DefaultWidthPx == 260       \* PdfViewer.tsx:1050
MinWidthPx == 60            \* PdfViewer.tsx:385
MinHeightPx == 20           \* PdfViewer.tsx:386
SignatureWidthPx == 150     \* PdfViewer.tsx:758
SignatureCanvasW == 500     \* SignatureTool canvas.width
SignatureCanvasH == 200     \* SignatureTool canvas.height

Norm(px) == (px * Unit) \div PagePx

\* handlePageClick on empty page space in edit mode, PdfViewer.tsx:1029-1073
PlaceAnnotation(screenX, screenY) ==
    LET defaultWidth == Norm(DefaultWidthPx)
        originalCoords == inverseTransformRect(screenX, screenY, defaultWidth,
                                               DefaultHeight, rotation)
        newAnnotation == TextAnnotation(nextEntId, currentPage, originalCoords.x,
                                        originalCoords.y, originalCoords.w, Absent,
                                        Placeholder, Placeholder, textStyle.bold)
    IN /\ PageShown
       /\ isTextMode
       /\ nextEntId <= MaxEnts
       /\ CanCapture
       /\ handleAddAnnotation(newAnnotation)
       /\ nextEntId' = nextEntId + 1
       /\ selectedAnnotationId' = newAnnotation.id
       /\ selectedPatchId' = 0
       /\ editingId' = newAnnotation.id
       /\ draftText' = newAnnotation.html
       /\ UNCHANGED <<detected, composite, projected, runs, mergeQueue, job, flight, signature>>
          /\ UNCHANGED <<treeVars, moves, imageAnnotationsByFile, textPatchesByFile, viewVars,
                      isTextMode, textStyle, fixedVars>>

\* handlePageClick on a span of the text layer, PdfViewer.tsx:982-1026
PlacePatch(span, detectedBold) ==
    LET originalCoords == inverseTransformRect(span.x, span.y, span.w, span.h, rotation)
        patch == EditTextPatch(nextEntId, activeFile.id, currentPage,
                               BBox(originalCoords.x, originalCoords.y,
                                    originalCoords.w, originalCoords.h),
                               span.text, span.text, span.text, detectedBold)
    IN /\ PageShown
       /\ isTextMode
       /\ nextEntId <= MaxEnts
       /\ CanCapture
       /\ handleAddPatch(patch)
       /\ nextEntId' = nextEntId + 1
       /\ selectedPatchId' = patch.id
       /\ selectedAnnotationId' = 0
       /\ editingId' = patch.id
       /\ draftText' = patch.html
       /\ detected' = Put(detected, patch.id, patch.bbox)
       /\ UNCHANGED <<composite, projected, runs, mergeQueue, job, flight, signature>>
          /\ UNCHANGED <<treeVars, moves, annotationsByFile, imageAnnotationsByFile, viewVars,
                      isTextMode, textStyle, fixedVars>>

\* handleInput -> onChangeText, PdfViewer.tsx:273-280, 1272-1275
ChangeText(html) ==
    /\ PageShown
    /\ editingId # 0
    /\ draftText' = html
    /\ op' = Op("other", TRUE)
    /\ mark' = markOther
    /\ UNCHANGED <<treeVars, entVars, histVars, viewVars, isTextMode, selectedAnnotationId,
                   selectedPatchId, editingId, textStyle, fixedVars>>

\* handleApplyEdit, PdfViewer.tsx:1076-1090
ApplyEdit ==
    LET html == draftText
        cleanText == normalizeEditedText(draftText)
    IN /\ PageShown
       /\ editingId # 0
       /\ IF HasId(activeAnnotations, editingId)
             THEN /\ annotationsByFile' =
                        updatedAnnotations(annotationsByFile, editingId,
                            [text |-> cleanText, html |-> html])
                  /\ UNCHANGED textPatchesByFile
             ELSE IF HasId(activePatches, editingId)
             THEN /\ textPatchesByFile' =
                        updatedAnnotations(textPatchesByFile, editingId,
                            [newText |-> cleanText, html |-> html])
                  /\ UNCHANGED annotationsByFile
             ELSE UNCHANGED <<annotationsByFile, textPatchesByFile>>
       /\ editingId' = 0
       /\ op' = Op("other", TRUE)
       /\ mark' = markOther
       /\ UNCHANGED <<treeVars, imageAnnotationsByFile, quietVars, moves, histVars, viewVars,
                      isTextMode, selectedAnnotationId, selectedPatchId, draftText,
                      textStyle, fixedVars>>

\* handleCancelEdit, PdfViewer.tsx:1092-1103, with the onDeleteAnnotation and
\* onDeletePatch lambdas of App.tsx:676
CancelEdit ==
    /\ PageShown
    /\ editingId # 0
    /\ IF HasId(activeAnnotations, editingId)
          THEN /\ annotationsByFile' = withoutId(annotationsByFile, editingId)
               /\ UNCHANGED textPatchesByFile
          ELSE IF HasId(activePatches, editingId)
          THEN /\ textPatchesByFile' = withoutId(textPatchesByFile, editingId)
               /\ UNCHANGED annotationsByFile
          ELSE UNCHANGED <<annotationsByFile, textPatchesByFile>>
    /\ editingId' = 0
    /\ selectedAnnotationId' = 0
    /\ selectedPatchId' = 0
    /\ op' = Op("other", TRUE)
    /\ mark' = markOther
    /\ UNCHANGED <<treeVars, imageAnnotationsByFile, quietVars, moves, histVars, viewVars,
                   isTextMode, draftText, textStyle, fixedVars>>

\* the text overlays of the current page (patches and annotations)
IsTextOverlay(id) == HasId(OnPage(activeAnnotations), id) \/ HasId(OnPage(activePatches), id)
IsAnnotation(id) == HasId(OnPage(activeAnnotations), id)

textOverlay(id) ==
    IF IsAnnotation(id) THEN annOverlay(ById(activeAnnotations, id))
    ELSE patchOverlay(ById(activePatches, id))

\* onSelect of a text overlay, PdfViewer.tsx:1239-1247
selectOverlay(id) ==
    /\ selectedAnnotationId' = IF IsAnnotation(id) THEN id ELSE 0
    /\ selectedPatchId' = IF IsAnnotation(id) THEN 0 ELSE id

\* onChangeBounds of a text overlay, PdfViewer.tsx:1252-1271
onChangeBounds(id, x, y, w, h) ==
    LET original == inverseTransformRect(x, y, w, h, rotation) IN
    IF IsAnnotation(id)
       THEN /\ annotationsByFile' =
                  updatedAnnotations(annotationsByFile, id,
                      [x |-> original.x, y |-> original.y,
                       width |-> original.w, height |-> original.h])
            /\ UNCHANGED textPatchesByFile
       ELSE /\ textPatchesByFile' =
                  updatedAnnotations(textPatchesByFile, id,
                      [bbox |-> BBox(original.x, original.y, original.w, original.h)])
            /\ UNCHANGED annotationsByFile

\* the clamp of handleMouseMove, PdfViewer.tsx:315-316 and 582-583
dragClamp(v) == Max(0, Min(DragMax, v))

\* EditableTextOverlay.handleMouseDown and one handleMouseMove of the drag,
\* PdfViewer.tsx:282-332
DragText(id, deltaX, deltaY) ==
    LET overlay == textOverlay(id)
        newX == dragClamp(overlay.x + deltaX)
        newY == dragClamp(overlay.y + deltaY)
    IN /\ PageShown
       /\ isTextMode
       /\ IsTextOverlay(id)
       /\ editingId # id
       /\ selectOverlay(id)
       /\ editingId' = 0
       /\ onChangeBounds(id, newX, newY, overlay.w, OrElse(overlay.h, 0))
       /\ moves < MaxMoves
       /\ moves' = moves + 1
       /\ op' = Op("other", TRUE)
       /\ mark' = markOther
       /\ UNCHANGED <<treeVars, imageAnnotationsByFile, quietVars, histVars, viewVars,
                      isTextMode, draftText, textStyle, fixedVars>>

\* onDoubleClick -> onEnterEdit after the mouse-down has selected the overlay,
\* PdfViewer.tsx:456-460, 1248-1251
EnterEdit(id) ==
    /\ PageShown
    /\ isTextMode
    /\ IsTextOverlay(id)
    /\ editingId # id
    /\ selectOverlay(id)
    /\ editingId' = id
    /\ draftText' = IF IsAnnotation(id) THEN ById(activeAnnotations, id).html
                    ELSE ById(activePatches, id).html
    /\ op' = Op("other", TRUE)
    /\ mark' = markOther
    /\ UNCHANGED <<treeVars, entVars, histVars, viewVars, isTextMode, textStyle, fixedVars>>

Directions == {"top-left", "top-right", "bottom-left", "bottom-right",
               "top-center", "bottom-center", "left-center", "right-center"}

\* direction.includes(part)
Includes(direction, part) ==
    CASE part = "left" -> direction \in {"top-left", "bottom-left", "left-center"}
      [] part = "right" -> direction \in {"top-right", "bottom-right", "right-center"}
      [] part = "top" -> direction \in {"top-left", "top-right", "top-center"}
      [] part = "bottom" -> direction \in {"bottom-left", "bottom-right", "bottom-center"}

\* handleResizeMove of a text overlay, PdfViewer.tsx:356-398: the display
\* rect handed to onChangeBounds
resizedRect(initialX, initialY, initialW, initialH, direction, dx, dy) ==
    LET x1 == IF Includes(direction, "left") THEN initialX + dx ELSE initialX
        w1 == IF Includes(direction, "left") THEN initialW - dx
              ELSE IF Includes(direction, "right") THEN initialW + dx ELSE initialW
        y1 == IF Includes(direction, "top") THEN initialY + dy ELSE initialY
        h1 == IF Includes(direction, "top") THEN initialH - dy
              ELSE IF Includes(direction, "bottom") THEN initialH + dy ELSE initialH
        minW == Norm(MinWidthPx)
        minH == Norm(MinHeightPx)
        x2 == IF w1 < minW /\ Includes(direction, "left") THEN initialX + (initialW - minW) ELSE x1
        w2 == IF w1 < minW THEN minW ELSE w1
        y2 == IF h1 < minH /\ Includes(direction, "top") THEN initialY + (initialH - minH) ELSE y1
        h2 == IF h1 < minH THEN minH ELSE h1
    IN Rect(x2, y2, w2, h2)

\* handleResizeStart and one handleResizeMove of a text overlay being edited,
\* PdfViewer.tsx:334-408
ResizeText(direction, dx, dy) ==
    LET overlay == textOverlay(editingId)
        r == resizedRect(overlay.x, overlay.y, overlay.w, OrElse(overlay.h, DefaultHeight),
                         direction, dx, dy)
    IN /\ PageShown
       /\ isTextMode
       /\ editingId # 0
       /\ IsTextOverlay(editingId)
       /\ onChangeBounds(editingId, r.x, r.y, r.w, r.h)
       /\ moves < MaxMoves
       /\ moves' = moves + 1
       /\ op' = Op("other", TRUE)
       /\ mark' = markOther
       /\ UNCHANGED <<treeVars, imageAnnotationsByFile, quietVars, histVars, viewVars,
                      editVars, fixedVars>>

\* handleUpdateImageAnnotation through the image overlay's onChangeBounds,
\* PdfViewer.tsx:1213-1223, App.tsx:463-466
imageBounds(id, x, y, w, h) ==
    LET original == inverseTransformRect(x, y, w, h, rotation) IN
    imageAnnotationsByFile' =
        updatedAnnotations(imageAnnotationsByFile, id,
            [x |-> original.x, y |-> original.y,
             width |-> original.w, height |-> original.h])

\* EditableImageOverlay.handleMouseDown and one handleMouseMove,
\* PdfViewer.tsx:551-597; selecting an image clears the text selection
\* (PdfViewer.tsx:955-960)
DragImage(id, deltaX, deltaY) ==
    LET overlay == imageOverlay(ById(activeImages, id))
        newX == dragClamp(overlay.x + deltaX)
        newY == dragClamp(overlay.y + deltaY)
    IN /\ PageShown
       /\ HasId(OnPage(activeImages), id)
       /\ imageBounds(id, newX, newY, overlay.w, OrElse(overlay.h, 0))
       /\ selectedAnnotationId' = 0
       /\ selectedPatchId' = 0
       /\ editingId' = 0
       /\ moves < MaxMoves
       /\ moves' = moves + 1
       /\ op' = Op("other", TRUE)
       /\ mark' = markOther
       /\ UNCHANGED <<treeVars, annotationsByFile, textPatchesByFile, quietVars, histVars,
                      viewVars, isTextMode, draftText, textStyle, fixedVars>>

\* handleResizeMove of an image overlay, PdfViewer.tsx:615-654.  The height
\* newW * initialH / initialW is rounded down to the grid.
resizedImage(initialX, initialY, initialW, initialH, direction, dx) ==
    LET grow == IF direction \in {"bottom-right", "top-right"} THEN initialW + dx
                ELSE initialW - dx
        newW == IF grow < MinImageWidth THEN MinImageWidth ELSE grow
        newH == (newW * initialH) \div initialW
        newX == IF direction \in {"bottom-left", "top-left"} THEN initialX + (initialW - newW)
                ELSE initialX
        newY == IF direction \in {"top-right", "top-left"} THEN initialY + (initialH - newH)
                ELSE initialY
    IN Rect(newX, newY, newW, newH)

ImageDirections == {"top-left", "top-right", "bottom-left", "bottom-right"}

\* handleResizeStart and one handleResizeMove of a selected image overlay,
\* PdfViewer.tsx:599-664
ResizeImage(id, direction, dx) ==
    LET overlay == imageOverlay(ById(activeImages, id))
        r == resizedImage(overlay.x, overlay.y, overlay.w,
                          OrElse(overlay.h, DefaultImageHeight), direction, dx)
    IN /\ PageShown
       /\ HasId(OnPage(activeImages), id)
       /\ overlay.w > 0
       /\ imageBounds(id, r.x, r.y, r.w, r.h)
       /\ selectedAnnotationId' = 0
       /\ selectedPatchId' = 0
       /\ editingId' = 0
       /\ moves < MaxMoves
       /\ moves' = moves + 1
       /\ op' = Op("other", TRUE)
       /\ mark' = markOther
       /\ UNCHANGED <<treeVars, annotationsByFile, textPatchesByFile, quietVars, histVars,
                      viewVars, isTextMode, draftText, textStyle, fixedVars>>

\* handleSignatureComplete and the image-load callback of the pending
\* signature, App.tsx:560-563, PdfViewer.tsx:751-791
PlaceSignature(dataUrl) ==
    LET normW == Norm(SignatureWidthPx)
        normH == Norm((SignatureWidthPx * SignatureCanvasH) \div SignatureCanvasW)
        finalX == (Unit - normW) \div 2
        finalY == (Unit - normH) \div 2
        original == inverseTransformRect(finalX, finalY, normW, normH, rotation)
    IN /\ PageShown
       /\ nextEntId <= MaxEnts
       /\ CanCapture
       /\ handleAddImageAnnotation(
              ImageAnnotation(nextEntId, currentPage, original.x, original.y,
                              original.w, original.h, dataUrl))
       /\ nextEntId' = nextEntId + 1
       /\ selectedAnnotationId' = 0
       /\ selectedPatchId' = 0
       /\ editingId' = 0
       /\ UNCHANGED <<detected, composite, projected, runs, mergeQueue, job, flight, signature>>
          /\ UNCHANGED <<treeVars, moves, annotationsByFile, textPatchesByFile, viewVars,
                      isTextMode, draftText, textStyle, fixedVars>>

----------------------------------------------------------------------------
(* The pending signature, App.tsx:560-563 and PdfViewer.tsx:751-791.  Every  *)
(* run of the placement effect creates an Image whose onload keeps the props *)
(* of the render that started it: onAddImageAnnotation with its pushHistory  *)
(* (historyIndex and getCurrentWorkspaceState of that render) and its        *)
(* state.activeFile, currentPage, rotation and pendingSignature.             *)

\* the props an onload callback has closed over
Closure ==
    [historyIndex |-> historyIndex, ws |-> getCurrentWorkspaceState,
     fileId |-> activeFile.id, page |-> currentPage, rotation |-> rotation,
     dataUrl |-> signature.url]

\* one run of the effect at PdfViewer.tsx:751-790: img.src = pendingSignature
startLoad(sig) == [sig EXCEPT !.loads = Append(@, [Closure EXCEPT !.dataUrl = sig.url])]

\* handleSignatureComplete(signatureDataUrl), App.tsx:560-563, and the effect
\* run of the render it causes
SignatureComplete(signatureDataUrl) ==
    /\ PageShown
    /\ signature.url = ""
    /\ signature.loads = <<>>
    /\ CanCapture
    /\ signature' = startLoad([signature EXCEPT !.url = signatureDataUrl,
                                                !.completed = @ + 1])
    /\ op' = Op("other", TRUE)
    /\ mark' = markOther
    /\ UNCHANGED <<treeVars, annotationsByFile, imageAnnotationsByFile, textPatchesByFile,
                   nextEntId, detected, composite, projected, runs, mergeQueue, job, flight,
                   moves, histVars, viewVars, editVars, fixedVars>>

\* a further render of the application while the signature is pending:
\* onAddImageAnnotation and onPlaceSignature are new functions in every
\* render (App.tsx:457, 676), so the effect runs again
Rerender ==
    /\ PageShown
    /\ signature.url # ""
    /\ Len(signature.loads) < MaxLoads
    /\ signature' = startLoad(signature)
    /\ op' = Op("other", TRUE)
    /\ mark' = markOther
    /\ UNCHANGED <<treeVars, annotationsByFile, imageAnnotationsByFile, textPatchesByFile,
                   nextEntId, detected, composite, projected, runs, mergeQueue, job, flight,
                   moves, histVars, viewVars, editVars, fixedVars>>

\* img.onload, PdfViewer.tsx:755-787, with handleAddImageAnnotation and the
\* pushHistory of the render that started the load (App.tsx:230-237, 457-461):
\* the updaters of setHistory, setHistoryIndex and setImageAnnotationsByFile
\* run on the state of now, with the historyIndex and the snapshot of then
ImageLoaded ==
    /\ signature.loads # <<>>
    /\ CanCapture
    /\ LET c == Head(signature.loads)
           normW == Norm(SignatureWidthPx)
           normH == Norm((SignatureWidthPx * SignatureCanvasH) \div SignatureCanvasW)
           finalX == (Unit - normW) \div 2
           finalY == (Unit - normH) \div 2
           original == inverseTransformRect(finalX, finalY, normW, normH, c.rotation)
           ann == ImageAnnotation(nextEntId, c.page, original.x, original.y,
                                  original.w, original.h, c.dataUrl)
       IN /\ history' = pushedHistory(history, c.historyIndex, c.ws)
          /\ historyIndex' = historyIndex + 1
          /\ captures' = captures + 1
          /\ imageAnnotationsByFile' =
                Put(imageAnnotationsByFile, c.fileId,
                    Append(Get(imageAnnotationsByFile, c.fileId), ann))
          /\ signature' = [signature EXCEPT !.url = "", !.loads = Tail(@),
                                            !.placed = @ + 1]
    /\ nextEntId' = nextEntId + 1
    /\ selectedAnnotationId' = 0
    /\ selectedPatchId' = 0
    /\ op' = Op("capture", TRUE)
    /\ mark' = markCapture
    /\ UNCHANGED <<treeVars, annotationsByFile, textPatchesByFile, detected, composite,
                   projected, runs, mergeQueue, job, flight, moves, viewVars, isTextMode,
                   editingId, draftText, textStyle, fixedVars>>

----------------------------------------------------------------------------
(* Export, App.tsx:494-510 *)

\* what PDFDocument.load is handed: the bytes of a node, or the plain object
\* a JSON copy has left of them
bytesOf(data) == IF data.kind = "bytes" THEN data.v ELSE NotAPdf

\* handleDownloadPDF.  The continuation after the await hands the result to
\* the browser (downloadPdf) and touches no workspace state, so the call and
\* its result are recorded in one step.  One download is followed per run.
DownloadPDF ==
    LET id == activeFile.id
        anns == Get(annotationsByFile, id)
        patches == Get(textPatchesByFile, id)
        images == Get(imageAnnotationsByFile, id)
        hasRotation == \E k \in DOMAIN pageRotations : pageRotations[k] # 0
        pdfBytes == bytesOf(activeFile.data)
    IN /\ activeFile.type # "none"
       /\ Truthy(activeFile.data)
       /\ composite.pc = "off"
       /\ composite' =
             IF Len(anns) > 0 \/ Len(patches) > 0 \/ Len(images) > 0 \/ hasRotation
                THEN Call("edited", pdfBytes, anns, patches, pageRotations, images,
                          savePdfWithAnnotations(pdfBytes, anns, patches, pageRotations,
                                                 images))
                ELSE Call("original", pdfBytes, <<>>, <<>>, EmptyMap, <<>>,
                          Resolved(pdfBytes.pages))
       /\ op' = Op("other", TRUE)
       /\ mark' = markOther
       /\ UNCHANGED <<treeVars, annotationsByFile, imageAnnotationsByFile, textPatchesByFile,
                      nextEntId, detected, projected, runs, mergeQueue, job, flight, signature, moves, histVars,
                      viewVars, editVars, userIsPro, xf>>

----------------------------------------------------------------------------
(* The workspace: every handler, on the inputs below *)

FileNames == {"a.pdf"}
NewNames == {"b.pdf"}
Clicks == {[x |-> 10, y |-> 20]}
Spans == {[x |-> 10, y |-> 40, w |-> 20, h |-> 5, text |-> "Old"]}
Deltas == {[dx |-> 80, dy |-> 10]}
Resizes == {[direction |-> "bottom-right", dx |-> 10, dy |-> 5],
            [direction |-> "top-left", dx |-> 40, dy |-> -5]}
EntIds == 1..MaxEnts

Undo == handleUndo
Redo == handleRedo

\* The history manager over the document tree and the three annotation
\* maps: the handlers that capture, two that edit without capturing (leaving
\* edit mode prunes, a drag moves), undo and redo.
Next ==
    \/ \E id \in NodeIds(fileTree) : SelectFile(id)
    \/ \E b \in Payloads, n \in FileNames, isPdf \in BOOLEAN : UploadStart(b, n, isPdf)
    \/ UploadFinish
    \/ \E id \in NodeIds(fileTree) : ConfirmDelete(id)
    \/ \E id \in NodeIds(fileTree), n \in NewNames : RenameItem(id, n)
    \/ \E enable \in BOOLEAN : ToggleTextMode(enable)
    \/ \E c \in Clicks : PlaceAnnotation(c.x, c.y)
    \/ \E sp \in Spans : PlacePatch(sp, FALSE)
    \/ \E u \in {"sig"} : PlaceSignature(u)
    \/ ApplyEdit
    \/ \E id \in EntIds, d \in Deltas : DragText(id, d.dx, d.dy)
    \/ Undo
    \/ Redo

Spec == Init /\ [][Next]_vars

----------------------------------------------------------------------------
(* The editing surface of an uploaded document: rotation, edit mode, and    *)
(* every handler that places, edits, moves, resizes or deletes an entity.   *)

NextEdit ==
    \/ \E b \in Payloads, n \in FileNames : UploadStart(b, n, TRUE)
    \/ UploadFinish
    \/ Rotate
    \/ \E enable \in BOOLEAN : ToggleTextMode(enable)
    \/ \E bold \in BOOLEAN : StyleChange([bold |-> bold])
    \/ \E c \in Clicks : PlaceAnnotation(c.x, c.y)
    \/ \E sp \in Spans : PlacePatch(sp, FALSE)
    \/ \E u \in {"sig"} : PlaceSignature(u)
    \/ \E html \in Drafts : ChangeText(html)
    \/ ApplyEdit
    \/ CancelEdit
    \/ DeleteAnnotation
    \/ \E id \in EntIds : DeleteImageAnnotation(id)
    \/ \E id \in EntIds : EnterEdit(id)
    \/ \E id \in EntIds, d \in Deltas : DragText(id, d.dx, d.dy)
    \/ \E r \in Resizes : ResizeText(r.direction, r.dx, r.dy)
    \/ \E id \in EntIds, d \in Deltas : DragImage(id, d.dx, d.dy)
    \/ \E id \in EntIds, r \in Resizes : ResizeImage(id, r.direction, r.dx)

SpecEdit == Init /\ [][NextEdit]_vars

----------------------------------------------------------------------------
(* Editing a document and then exporting it: the entities are placed,       *)
(* edited, moved and resized on a page that may be rotated, and the         *)
(* compositor bakes what the workspace holds at the download.               *)

NextBake ==
    \/ \E b \in Payloads, n \in FileNames : UploadStart(b, n, TRUE)
    \/ UploadFinish
    \/ Rotate
    \/ \E enable \in BOOLEAN : ToggleTextMode(enable)
    \/ \E c \in Clicks : PlaceAnnotation(c.x, c.y)
    \/ \E sp \in Spans : PlacePatch(sp, FALSE)
    \/ \E u \in {"sig"} : PlaceSignature(u)
    \/ \E html \in Drafts : ChangeText(html)
    \/ ApplyEdit
    \/ \E id \in EntIds, d \in Deltas : DragText(id, d.dx, d.dy)
    \/ \E r \in Resizes : ResizeText(r.direction, r.dx, r.dy)
    \/ DownloadPDF

SpecBake == Init /\ [][NextBake]_vars

----------------------------------------------------------------------------
(* The coordinate transform on its own: a rect is projected to the display  *)
(* and back.                                                                *)

\* rect coordinates 0, 0.3, 0.6, ...
Coords == {30 * i : i \in 0..MaxCoord}

InitXform ==
    /\ InitWorkspace
    /\ userIsPro = FALSE
    /\ \E x \in Coords, y \in Coords, w \in Coords, h \in Coords, rot \in Rotations :
          xf = [NoXf EXCEPT !.pc = "rect", !.rect = Rect(x, y, w, h), !.rot = rot]
    /\ detected = EmptyMap
    /\ composite = NoComposite
    /\ projected = NoProjection
    /\ runs = NoRuns

ToDisplay ==
    /\ xf.pc = "rect"
    /\ xf' = [xf EXCEPT !.pc = "shown",
                        !.shown = transformRect(xf.rect.x, xf.rect.y, xf.rect.w,
                                                xf.rect.h, xf.rot)]
    /\ UNCHANGED <<treeVars, entVars, histVars, viewVars, editVars, userIsPro, op, mark>>

ToCanonical ==
    /\ xf.pc = "shown"
    /\ xf' = [xf EXCEPT !.pc = "back",
                        !.back = inverseTransformRect(xf.shown.x, xf.shown.y, xf.shown.w,
                                                      xf.shown.h, xf.rot)]
    /\ UNCHANGED <<treeVars, entVars, histVars, viewVars, editVars, userIsPro, op, mark>>

NextXform == ToDisplay \/ ToCanonical

SpecXform == InitXform /\ [][NextXform]_vars

----------------------------------------------------------------------------
(* The compositor and the overlay projector on their own: one call of       *)
(* savePdfWithAnnotations, and one evaluation of pageOverlays, on lists of  *)
(* entities of a two-page document.                                         *)

\* the workspace state, which these evaluations leave alone
workspaceVars == <<treeVars, annotationsByFile, imageAnnotationsByFile, textPatchesByFile,
                   nextEntId, detected, mergeQueue, job, flight, signature, moves, histVars, viewVars,
                   editVars, userIsPro, op, mark>>

\* page numbers of the entities: below 1, on the two pages, above the page count
EntityPages == 0..3

\* what is drawn of each entity: its page, and whether its text cannot be
\* encoded, or its data URL cannot be decoded
EntityChoices == [page : EntityPages, bad : BOOLEAN]

patchInput(id, c) ==
    LET newText == IF c.bad THEN CHOOSE t \in Unencodable : TRUE ELSE "New"
    IN EditTextPatch(id, 1, c.page, BBox(10, 40, 20, 5), "Old", newText, newText, FALSE)

annotationInput(id, c) ==
    LET text == IF c.bad THEN CHOOSE t \in Unencodable : TRUE ELSE "<b>Hi</b> "
    IN TextAnnotation(10 + id, c.page, 10, 20, 26, Absent, normalizeEditedText(text), text,
                      FALSE)

imageInput(id, c) ==
    ImageAnnotation(20 + id, c.page, 42, 47, 15, 6,
                    IF c.bad THEN CHOOSE u \in Undecodable : TRUE ELSE "sig")

PatchLists(n) == {[i \in 1..n |-> patchInput(i, f[i])] : f \in [1..n -> EntityChoices]}
AnnotationLists(n) == {[i \in 1..n |-> annotationInput(i, f[i])] : f \in [1..n -> EntityChoices]}
ImageLists(n) == {[i \in 1..n |-> imageInput(i, f[i])] : f \in [1..n -> EntityChoices]}

RotationMaps == {EmptyMap, Put(EmptyMap, 1, 90)}

InitComposite ==
    /\ InitWorkspace
    /\ userIsPro = FALSE
    /\ xf = NoXf
    /\ detected = EmptyMap
    /\ projected = NoProjection
    /\ runs = NoRuns
    /\ \E np \in 0..MaxDrawn, na \in 0..MaxDrawn, ni \in 0..MaxDrawn :
          /\ np + na + ni <= MaxDrawn
          /\ \E patches \in PatchLists(np), annotations \in AnnotationLists(na),
                images \in ImageLists(ni), rotations \in RotationMaps :
                composite = Call("ready", Pdf("a", 2), annotations, patches, rotations,
                                 images, Rejected)

Composite ==
    /\ composite.pc = "ready"
    /\ composite' =
          [composite EXCEPT
              !.pc = "edited",
              !.result = savePdfWithAnnotations(composite.pdfBytes, composite.annotations,
                                                composite.patches, composite.pageRotations,
                                                composite.imageAnnotations)]
    /\ UNCHANGED <<workspaceVars, xf, projected, runs>>

Project(page) ==
    /\ composite.pc # "off"
    /\ projected.pc = "off"
    /\ projected' =
          [pc |-> "shown", page |-> page,
           overlays |-> pageOverlays(composite.annotations, composite.patches,
                                     composite.imageAnnotations, page,
                                     IF page \in DOMAIN composite.pageRotations
                                        THEN composite.pageRotations[page] ELSE 0)]
    /\ UNCHANGED <<workspaceVars, xf, composite, runs>>

NextComposite ==
    \/ Composite
    \/ \E page \in 1..2 : Project(page)

SpecComposite == InitComposite /\ [][NextComposite]_vars

----------------------------------------------------------------------------
(* The run resolver on its own: parseHTMLFormatting on a markup string, and *)
(* the segments the compositor draws for an entity with that markup.        *)

Markups == {"", " ", "Hi", "<b>Hi</b> ", "<br>", "<b></b>", "a&amp;b", "1 &lt; 2",
            "<u>a</u><u>b</u>", "<i>a<s>b</s></i>c",
            "<span style=\"font-weight: bold;\">x</span>y<br>"}
PlainTexts == {"", "Hello"}
Styles == {Flags(b, i, u, k) : b \in BOOLEAN, i \in BOOLEAN, u \in BOOLEAN, k \in BOOLEAN}

InitRuns ==
    /\ InitWorkspace
    /\ userIsPro = FALSE
    /\ xf = NoXf
    /\ detected = EmptyMap
    /\ composite = NoComposite
    /\ projected = NoProjection
    /\ \E html \in Markups, text \in PlainTexts, style \in Styles :
          runs = [NoRuns EXCEPT !.pc = "ready", !.html = html, !.text = text,
                                !.style = style]

\* parseHTMLFormatting(html)
Parse ==
    /\ runs.pc = "ready"
    /\ runs' = [runs EXCEPT !.pc = "parsed", !.segments = parseHTMLFormatting(runs.html)]
    /\ UNCHANGED <<workspaceVars, xf, composite, projected>>

\* the compositor's drawContent call for the entity, pdfService.ts:311-322
\* and 360-371
Resolve ==
    /\ runs.pc = "ready"
    /\ runs' = [runs EXCEPT !.pc = "resolved",
                            !.segments = drawContent(OrText(runs.html, runs.text), runs.text,
                                                     runs.style.bold, runs.style.italic)]
    /\ UNCHANGED <<workspaceVars, xf, composite, projected>>

NextRuns == Parse \/ Resolve

SpecRuns == InitRuns /\ [][NextRuns]_vars

----------------------------------------------------------------------------
(* Merge and split: pdfService.ts:5-32, usePdfOperations.ts:147-249 and      *)
(* App.tsx:512-557.  The tree holds three documents, the third of which may  *)
(* be missing, without payload, unreadable, or without pages.                *)

Reverse(s) == [i \in 1..Len(s) |-> s[Len(s) + 1 - i]]

RECURSIVE copiedInto(_, _)
\* the loop of mergePdfs, pdfService.ts:8-12: mergedPages is what has been
\* added to mergedPdf when PDFDocument.load reads the next buffer
copiedInto(mergedPages, pdfBytesArray) ==
    IF pdfBytesArray = <<>> THEN Resolved(mergedPages)
    ELSE IF ~Head(pdfBytesArray).pdf THEN [ok |-> FALSE, pages |-> mergedPages]
    ELSE copiedInto(mergedPages \o Head(pdfBytesArray).pages, Tail(pdfBytesArray))

\* a merge that walks the array from its end
mergePdfsBackwards(pdfBytesArray) == copiedInto(<<>>, Reverse(pdfBytesArray))

\* mergePdfs, pdfService.ts:5-15; on a rejection, pages is what had been
\* copied by then
mergePdfs(pdfBytesArray) == copiedInto(<<>>, pdfBytesArray)

\* a split whose every output holds the first page
splitPdfFirstPage(pdfBytes) ==
    IF ~pdfBytes.pdf THEN [ok |-> FALSE, docs |-> <<>>]
    ELSE [ok |-> TRUE,
          docs |-> [i \in 1..Len(pdfBytes.pages) |->
                       [pdf |-> TRUE, pages |-> <<pdfBytes.pages[1]>>]]]

\* splitPdf, pdfService.ts:17-32
splitPdf(pdfBytes) ==
    IF ~pdfBytes.pdf THEN [ok |-> FALSE, docs |-> <<>>]
    ELSE [ok |-> TRUE,
          docs |-> [i \in 1..Len(pdfBytes.pages) |->
                       [pdf |-> TRUE, pages |-> <<pdfBytes.pages[i]>>]]]

\* findFileById(id, fileSystem) with the test of usePdfOperations.ts:153
hasData(tree, id) == id \in NodeIds(tree) /\ Truthy(findNodeById(tree, id).data)

\* usePdfOperations.ts:162
rotationsFor(id) ==
    IF activeFile.type # "none" /\ activeFile.id = id THEN pageRotations ELSE EmptyMap

\* usePdfOperations.ts:164
hasEdits(id) ==
    \/ Len(Get(annotationsByFile, id)) > 0
    \/ Len(Get(textPatchesByFile, id)) > 0
    \/ Len(Get(imageAnnotationsByFile, id)) > 0
    \/ \E k \in DOMAIN rotationsFor(id) : rotationsFor(id)[k] # 0

\* what the loop pushes for one id, usePdfOperations.ts:166-173; ok is
\* whether savePdfWithAnnotations resolved
blobOf(id) ==
    LET data == bytesOf(findNodeById(fileTree, id).data)
        edited == savePdfWithAnnotations(data, Get(annotationsByFile, id),
                                         Get(textPatchesByFile, id), rotationsFor(id),
                                         Get(imageAnnotationsByFile, id))
    IN IF hasEdits(id)
          THEN [ok |-> edited.ok, bytes |-> [pdf |-> edited.ok, pages |-> edited.pages]]
          ELSE [ok |-> TRUE, bytes |-> data]

\* the ids the loop does not skip, usePdfOperations.ts:151-153
gathered(ids) == SelectSeq(ids, LAMBDA id : hasData(fileTree, id))

RECURSIVE upToFailure(_)
\* the ids of a list whose bake is awaited: a rejection ends the loop
upToFailure(ids) ==
    IF ids = <<>> THEN <<>>
    ELSE IF ~blobOf(Head(ids)).ok THEN <<Head(ids)>>
    ELSE <<Head(ids)>> \o upToFailure(Tail(ids))

\* the documents performMergeByIds bakes, in the order of its awaits
bakes(ids) == upToFailure(SelectSeq(gathered(ids), LAMBDA id : hasEdits(id)))

\* a test that lets one buffer through
oneToMerge(blobsToMerge) == ~(Len(blobsToMerge) < 1)

\* the test of usePdfOperations.ts:176
enoughToMerge(blobsToMerge) == ~(Len(blobsToMerge) < 2)

NeedTwo == "Need at least 2 valid files to merge."
ZeroPages == "PDF splitting resulted in 0 pages."
LibraryError == "pdf-lib"     \* whatever PDFDocument.load or drawText throws

\* performMergeByIds up to addItemsToFolder, usePdfOperations.ts:147-190
performMergeByIds(ids) ==
    LET from == gathered(ids)
        blobs == [i \in 1..Len(from) |-> blobOf(from[i])]
        blobsToMerge == [i \in 1..Len(from) |-> blobs[i].bytes]
        merged == mergePdfs(blobsToMerge)
        parent == findParentId(ids[1], fileTree)
    IN IF \E i \in 1..Len(blobs) : ~blobs[i].ok
          THEN Job("merge", "running", ids, FALSE, <<>>, 0, parent, LibraryError)
       ELSE IF ~enoughToMerge(blobsToMerge)
          THEN Job("merge", "running", ids, FALSE, <<>>, 0, parent, NeedTwo)
       ELSE IF ~merged.ok
          THEN Job("merge", "running", ids, FALSE, <<>>, Len(merged.pages), parent,
                   LibraryError)
       ELSE Job("merge", "running", ids, TRUE, <<[pdf |-> TRUE, pages |-> merged.pages]>>,
                Len(merged.pages), parent, "")

\* splitIntoFolder up to addItemsToFolder, usePdfOperations.ts:196-241
splitIntoFolder(annotations, patches, rotations, imageAnnotations) ==
    LET edited == savePdfWithAnnotations(bytesOf(activeFile.data), annotations, patches,
                                         rotations, imageAnnotations)
        splitPages == splitPdf([pdf |-> edited.ok, pages |-> edited.pages])
        parent == findParentId(activeFile.id, fileTree)
        ids == <<activeFile.id>>
    IN IF ~edited.ok \/ ~splitPages.ok
          THEN Job("split", "running", ids, FALSE, <<>>, 0, parent, LibraryError)
       ELSE IF Len(splitPages.docs) = 0
          THEN Job("split", "running", ids, FALSE, <<>>, 0, parent, ZeroPages)
       ELSE Job("split", "running", ids, TRUE, splitPages.docs, Len(splitPages.docs),
                parent, "")

\* mergeItems, App.tsx:617: the rows of the merge dialog
mergeItems == SelectSeq(mergeQueue, LAMBDA id : id \in NodeIds(fileTree))

jobVars == <<annotationsByFile, imageAnnotationsByFile, textPatchesByFile, nextEntId,
             detected, composite, projected, runs, moves, signature>>

\* handleMoveInQueue(index, direction), App.tsx:524-532, from the arrows of
\* row index of the dialog (0-based); the first row has no up arrow and the
\* last no down arrow (MergeModal.tsx:75, 83)
MoveInQueue(index, direction) ==
    LET targetIndex == IF direction = "up" THEN index - 1 ELSE index + 1 IN
    /\ job.pc # "running"
    /\ index \in 0..(Len(mergeItems) - 1)
    /\ IF direction = "up" THEN index # 0 ELSE index # Len(mergeItems) - 1
    /\ mergeQueue' =
          IF targetIndex < 0 \/ targetIndex >= Len(mergeQueue) THEN mergeQueue
          ELSE [mergeQueue EXCEPT ![index + 1] = mergeQueue[targetIndex + 1],
                                  ![targetIndex + 1] = mergeQueue[index + 1]]
    /\ op' = Op("other", TRUE)
    /\ mark' = markOther
    /\ UNCHANGED <<treeVars, jobVars, job, flight, histVars, viewVars, editVars, fixedVars>>

\* handleRemoveFromQueue(index), App.tsx:534-536
RemoveFromQueue(index) ==
    /\ job.pc # "running"
    /\ index \in 0..(Len(mergeItems) - 1)
    /\ mergeQueue' = [i \in 1..(Len(mergeQueue) - 1) |->
                         IF i < index + 1 THEN mergeQueue[i] ELSE mergeQueue[i + 1]]
    /\ op' = Op("other", TRUE)
    /\ mark' = markOther
    /\ UNCHANGED <<treeVars, jobVars, job, flight, histVars, viewVars, editVars, fixedVars>>

\* handleFinalMerge up to the await inside performMergeByIds, App.tsx:512-517.
\* performMergeByIds reads the tree, the edits and the rotations of the render
\* of the call, so what it resolves to is fixed here.  The button is enabled
\* on two rows (MergeModal.tsx:105).
MergeStart ==
    /\ job.pc # "running"
    /\ Len(mergeItems) >= 2
    /\ ~(Len(mergeQueue) < 2)
    /\ CanCapture
    /\ pushHistory
    /\ job' = performMergeByIds(mergeQueue)
    /\ flight' = flight \cup (IF bakes(mergeQueue) = <<>> THEN {}
                               ELSE {Flight("merge", Head(bakes(mergeQueue)),
                                            Tail(bakes(mergeQueue)))})
    /\ UNCHANGED <<treeVars, jobVars, mergeQueue, viewVars, editVars, fixedVars>>

\* one await of the loop resolves, usePdfOperations.ts:168: the next edited
\* document is baked, if there is one
MergeBaked ==
    /\ \E f \in flight :
          /\ f.by = "merge"
          /\ flight' = (flight \ {f}) \cup (IF f.rest = <<>> THEN {}
                                             ELSE {Flight("merge", Head(f.rest), Tail(f.rest))})
    /\ op' = Op("other", TRUE)
    /\ mark' = markOther
    /\ UNCHANGED <<treeVars, jobVars, job, mergeQueue, histVars, viewVars, editVars,
                   fixedVars>>

\* the rest of performMergeByIds and of handleFinalMerge: addItemsToFolder
\* (usePdfOperations.ts:69-87) and App.tsx:518-520, or the alert
MergeFinish ==
    /\ job.pc = "running"
    /\ job.kind = "merge"
    /\ \A f \in flight : f.by # "merge"
    /\ op' = Op("other", TRUE)
    /\ mark' = markOther
    /\ IF job.ok
          THEN LET newItem == Node(nextNodeId, "Merged.pdf", "pdf", Bytes(job.outputs[1]),
                                   <<>>)
               IN /\ nextNodeId' = nextNodeId + 1
                  /\ fileTree' = insertNode(fileTree, newItem, job.parent)
                  /\ handleSelectFile(newItem)
                  /\ mergeQueue' = <<>>
                  /\ job' = [job EXCEPT !.pc = "done"]
          ELSE /\ job' = [job EXCEPT !.pc = "failed"]
               /\ UNCHANGED <<fileTree, nextNodeId, viewVars, mergeQueue,
                              selectedAnnotationId, selectedPatchId, editingId>>
    /\ UNCHANGED <<pendingUpload, jobVars, flight, histVars, isTextMode, draftText,
                   textStyle, fixedVars>>

RECURSIVE withoutPdf(_)
\* name.replace('.pdf', ''): the first occurrence is dropped
withoutPdf(name) ==
    IF Len(name) < 4 THEN name
    ELSE IF SubSeq(name, 1, 4) = ".pdf" THEN SubSeq(name, 5, Len(name))
    ELSE SubSeq(name, 1, 1) \o withoutPdf(SubSeq(name, 2, Len(name)))

\* handleFinalSplit up to the awaits inside splitIntoFolder, App.tsx:539-549.
\* The dialog opens on an active file with a payload (App.tsx:609).
SplitStart ==
    /\ job.pc # "running"
    /\ activeFile.type # "none"
    /\ Truthy(activeFile.data)
    /\ CanCapture
    /\ pushHistory
    /\ job' = splitIntoFolder(Get(annotationsByFile, activeFile.id),
                              Get(textPatchesByFile, activeFile.id), pageRotations,
                              Get(imageAnnotationsByFile, activeFile.id))
    /\ flight' = flight \cup {Flight("split", activeFile.id, <<>>)}
    /\ UNCHANGED <<treeVars, jobVars, mergeQueue, viewVars, editVars, fixedVars>>

\* the rest of splitIntoFolder, usePdfOperations.ts:243-249: the folder comes
\* with its files, and is not selected (usePdfOperations.ts:80-85)
SplitFinish(folderName) ==
    /\ job.pc = "running"
    /\ job.kind = "split"
    /\ op' = Op("other", TRUE)
    /\ mark' = markOther
    /\ IF job.ok
          THEN LET n == Len(job.outputs)
                   splitFiles ==
                      [idx \in 1..n |->
                          Node(nextNodeId + idx - 1,
                               withoutPdf(activeFile.name) \o "-page-" \o ToString(idx)
                                  \o ".pdf",
                               "pdf", Bytes(job.outputs[idx]), <<>>)]
                   newFolder == Node(nextNodeId + n, folderName, "folder", NoData, splitFiles)
               IN /\ nextNodeId' = nextNodeId + n + 1
                  /\ fileTree' = insertNode(fileTree, newFolder, job.parent)
                  /\ job' = [job EXCEPT !.pc = "done"]
          ELSE /\ job' = [job EXCEPT !.pc = "failed"]
               /\ UNCHANGED <<fileTree, nextNodeId>>
    /\ flight' = {f \in flight : f.by # "split"}
    /\ UNCHANGED <<pendingUpload, jobVars, mergeQueue, histVars, viewVars, editVars,
                   fixedVars>>

\* the third document: not in the tree, or a node without payload, with
\* bytes that are no PDF, with a PDF of no page, or with a PDF of one page
ThirdDocuments == {"absent", "no data", "unreadable", "no page", "one page"}

thirdData(third) ==
    CASE third = "unreadable" -> Bytes(NotAPdf)
      [] third = "no page" -> Bytes(Pdf("c", 0))
      [] third = "one page" -> Bytes(Pdf("c", 1))
      [] OTHER -> NoData

\* a.pdf in the Documents folder, b.pdf and the third document beside it
MergeTree(third) ==
    << Node(100, "Documents", "folder", NoData,
            << Node(1, "a.pdf", "pdf", Bytes(Pdf("a", 1)), <<>>) >>),
       Node(2, "b.pdf", "pdf", Bytes(Pdf("b", 2)), <<>>) >>
    \o IF third = "absent" THEN <<>>
       ELSE << Node(3, "c.pdf", "pdf", thirdData(third), <<>>) >>

\* the annotations of b.pdf: none, one on either page, or one that cannot be
\* encoded
MergeEdits ==
    {<<>>} \cup {<<annotationInput(1, c)>> :
                    c \in {[page |-> 1, bad |-> FALSE], [page |-> 2, bad |-> FALSE],
                           [page |-> 1, bad |-> TRUE]}}

\* the ids of the three documents, whether in the tree or not
MergeIds == 1..3

\* every queue of distinct ids
MergeQueues ==
    UNION {{q \in [1..n -> MergeIds] : \A i, j \in 1..n : i # j => q[i] # q[j]} : n \in 0..3}

InitMerge ==
    /\ \E third \in ThirdDocuments : fileTree = MergeTree(third)
    /\ \E edits \in MergeEdits :
          annotationsByFile = IF edits = <<>> THEN EmptyMap ELSE Put(EmptyMap, 2, edits)
    /\ imageAnnotationsByFile = EmptyMap
    /\ textPatchesByFile = EmptyMap
    /\ history = <<>>
    /\ historyIndex = -1
    /\ \E id \in {0} \cup (NodeIds(fileTree) \ {100}) :
          activeFile = IF id = 0 THEN NoFile ELSE FileOf(findNodeById(fileTree, id))
    /\ currentPage = 1
    /\ pageRotations \in IF activeFile.type = "none" THEN {EmptyMap} ELSE RotationMaps
    /\ isTextMode = FALSE
    /\ selectedAnnotationId = 0
    /\ selectedPatchId = 0
    /\ editingId = 0
    /\ draftText = ""
    /\ pendingUpload = NoUpload
    /\ textStyle = [bold |-> FALSE]
    /\ nextNodeId = 4
    /\ nextEntId = 2
    /\ moves = 0
    /\ captures = 0
    /\ op = Op("init", TRUE)
    /\ mark = Idle
    /\ userIsPro = TRUE
    /\ xf = NoXf
    /\ detected = EmptyMap
    /\ composite = NoComposite
    /\ projected = NoProjection
    /\ runs = NoRuns
    /\ mergeQueue \in MergeQueues
    /\ job = NoJob
    /\ flight = {}
    /\ signature = NoSignature

NextMerge ==
    \/ \E index \in 0..2, direction \in {"up", "down"} : MoveInQueue(index, direction)
    \/ \E index \in 0..2 : RemoveFromQueue(index)
    \/ MergeStart
    \/ MergeBaked
    \/ MergeFinish
    \/ SplitStart
    \/ SplitFinish("Split")

SpecMerge == InitMerge /\ [][NextMerge]_vars

----------------------------------------------------------------------------
(* Leaving edit mode: handleToggleTextMode on a document that holds up to    *)
(* two annotations and two patches, fresh or edited.                         *)

\* the text of an annotation: the placeholder it is created with, or what
\* handleApplyEdit has stored (a blank draft, a text)
PruneTexts == {Placeholder, "", "Hi"}

\* originalText and newText of a patch: as created on a span whose text has
\* or has no space at its end, or with what handleApplyEdit has stored
PruneEdits ==
    {[originalText |-> "Old", newText |-> "Old"],
     [originalText |-> "Old ", newText |-> "Old "],
     [originalText |-> "Old ", newText |-> "Old"],
     [originalText |-> "Old", newText |-> "New"],
     [originalText |-> "Old", newText |-> ""]}

PruneAnnotations(n) ==
    {[i \in 1..n |-> TextAnnotation(10 + i, 1, 10, 20 * i, Absent, Absent, f[i], f[i], FALSE)] :
        f \in [1..n -> PruneTexts]}

PrunePatches(n) ==
    {[i \in 1..n |-> EditTextPatch(20 + i, 1, 1, BBox(10, 40 + 10 * i, 20, 5),
                                   f[i].originalText, f[i].newText, f[i].newText, FALSE)] :
        f \in [1..n -> PruneEdits]}

\* the spans of the text layer a patch is placed on here
PruneSpans == {[x |-> 10, y |-> 40, w |-> 20, h |-> 5, text |-> t] : t \in {"Old", "Old "}}

PruneDocument == Node(1, "a.pdf", "pdf", Bytes(Pdf("a", 1)), <<>>)

InitPrune ==
    /\ fileTree = Append(INITIAL_FILE_SYSTEM, PruneDocument)
    /\ \E n \in 0..2 : \E anns \in PruneAnnotations(n) :
          annotationsByFile = IF n = 0 THEN EmptyMap ELSE Put(EmptyMap, 1, anns)
    /\ \E n \in 0..2 : \E patches \in PrunePatches(n) :
          textPatchesByFile = IF n = 0 THEN EmptyMap ELSE Put(EmptyMap, 1, patches)
    /\ imageAnnotationsByFile = EmptyMap
    /\ history = <<>>
    /\ historyIndex = -1
    /\ activeFile = FileOf(PruneDocument)
    /\ currentPage = 1
    /\ pageRotations = EmptyMap
    /\ isTextMode = TRUE
    /\ selectedAnnotationId = 0
    /\ selectedPatchId = 0
    /\ editingId = 0
    /\ draftText = ""
    /\ pendingUpload = NoUpload
    /\ textStyle = [bold |-> FALSE]
    /\ nextNodeId = 2
    /\ nextEntId = 1
    /\ moves = 0
    /\ captures = 0
    /\ op = Op("init", TRUE)
    /\ mark = Idle
    /\ userIsPro = FALSE
    /\ xf = NoXf
    /\ detected = EmptyMap
    /\ composite = NoComposite
    /\ projected = NoProjection
    /\ runs = NoRuns
    /\ mergeQueue = <<>>
    /\ job = NoJob
    /\ flight = {}
    /\ signature = NoSignature

NextPrune ==
    \/ \E enable \in BOOLEAN : ToggleTextMode(enable)
    \/ \E sp \in PruneSpans : PlacePatch(sp, FALSE)
    \/ \E html \in Drafts : ChangeText(html)
    \/ ApplyEdit

SpecPrune == InitPrune /\ [][NextPrune]_vars

----------------------------------------------------------------------------
(* Composites in flight: the download, merge and split handlers on the tree  *)
(* of three documents, from a workspace with no dialog open.                 *)

\* handleAction('merge'), App.tsx:602-608, on the ids selected in the tree,
\* in the order they were selected.  The dialog is opened before any merge
\* or split of the run.
OpenMerge(selectedFileIds) ==
    LET valid == SelectSeq(selectedFileIds, LAMBDA id : hasData(fileTree, id)) IN
    /\ mergeQueue = <<>>
    /\ job.pc = "off"
    /\ Range(selectedFileIds) \subseteq NodeIds(fileTree)
    /\ Len(selectedFileIds) >= 2
    /\ mergeQueue' = IF Len(valid) < 2 THEN mergeQueue ELSE valid
    /\ op' = Op("other", TRUE)
    /\ mark' = markOther
    /\ UNCHANGED <<treeVars, jobVars, job, flight, histVars, viewVars, editVars, fixedVars>>

\* handleDownloadPDF up to its await, App.tsx:494-504.  The button is
\* disabled while a download runs (Toolbar.tsx:66), and the toolbar is under
\* the merge and the split dialog while one of them is open.
DownloadStart ==
    LET id == activeFile.id
        anns == Get(annotationsByFile, id)
        patches == Get(textPatchesByFile, id)
        images == Get(imageAnnotationsByFile, id)
        hasRotation == \E k \in DOMAIN pageRotations : pageRotations[k] # 0
        pdfBytes == bytesOf(activeFile.data)
        edited == Len(anns) > 0 \/ Len(patches) > 0 \/ Len(images) > 0 \/ hasRotation
    IN /\ activeFile.type # "none"
       /\ Truthy(activeFile.data)
       /\ composite.pc = "off"
       /\ mergeQueue = <<>>
       /\ job.pc # "running"
       /\ composite' =
             IF edited
                THEN Call("running", pdfBytes, anns, patches, pageRotations, images,
                          savePdfWithAnnotations(pdfBytes, anns, patches, pageRotations,
                                                 images))
                ELSE Call("original", pdfBytes, <<>>, <<>>, EmptyMap, <<>>,
                          Resolved(pdfBytes.pages))
       /\ flight' = IF edited THEN flight \cup {Flight("download", id, <<>>)} ELSE flight
       /\ op' = Op("other", TRUE)
       /\ mark' = markOther
       /\ UNCHANGED <<treeVars, annotationsByFile, imageAnnotationsByFile, textPatchesByFile,
                      nextEntId, detected, projected, runs, mergeQueue, job, signature, moves,
                      histVars, viewVars, editVars, fixedVars>>

\* the rest of handleDownloadPDF, App.tsx:505-509: the bytes go to the
\* browser, or the alert is shown
DownloadFinish ==
    /\ composite.pc = "running"
    /\ composite' = [composite EXCEPT !.pc = "edited"]
    /\ flight' = {f \in flight : f.by # "download"}
    /\ op' = Op("other", TRUE)
    /\ mark' = markOther
    /\ UNCHANGED <<treeVars, annotationsByFile, imageAnnotationsByFile, textPatchesByFile,
                   nextEntId, detected, projected, runs, mergeQueue, job, signature, moves,
                   histVars, viewVars, editVars, fixedVars>>

InitFlight == InitMerge /\ mergeQueue = <<>>

NextFlight ==
    \/ \E selectedFileIds \in MergeQueues : OpenMerge(selectedFileIds)
    \/ NextMerge
    \/ DownloadStart
    \/ DownloadFinish

SpecFlight == InitFlight /\ [][NextFlight]_vars

----------------------------------------------------------------------------
(* Rotation: handleRotate, the page buttons and handleSelectFile on a.pdf    *)
(* (one page), b.pdf (two pages) and c.pdf (one page).                       *)

\* the page buttons of the viewer, PdfViewer.tsx:1308 and 1319, with
\* numPages || currentPage
PageChange(delta) ==
    LET numPages == Len(bytesOf(activeFile.data).pages)
        last == IF numPages = 0 THEN currentPage ELSE numPages
    IN /\ PageShown
       /\ currentPage' = IF delta < 0 THEN Max(1, currentPage - 1)
                         ELSE Min(last, currentPage + 1)
       /\ op' = Op("other", TRUE)
       /\ mark' = markOther
       /\ UNCHANGED <<treeVars, entVars, histVars, activeFile, pageRotations, editVars,
                      fixedVars>>

InitRotate ==
    /\ InitMerge
    /\ 3 \in NodeIds(fileTree)
    /\ hasData(fileTree, 3)
    /\ LET third == bytesOf(findNodeById(fileTree, 3).data)
       IN third.pdf /\ Len(third.pages) = 1
    /\ annotationsByFile = EmptyMap
    /\ activeFile = NoFile
    /\ mergeQueue = <<>>

NextRotate ==
    \/ Rotate
    \/ \E delta \in {-1, 1} : PageChange(delta)
    \/ \E id \in MergeIds \cup {100} : SelectFile(id)

SpecRotate == InitRotate /\ [][NextRotate]_vars

----------------------------------------------------------------------------
(* Signing a.pdf or b.pdf, with undo, redo and file selection while the     *)
(* signature is pending.                                                     *)

InitSign == InitRotate

NextSign ==
    \/ \E id \in {1, 2} : SelectFile(id)
    \/ \E signatureDataUrl \in {"sig"} : SignatureComplete(signatureDataUrl)
    \/ Rerender
    \/ ImageLoaded
    \/ Undo
    \/ Redo

SpecSign == InitSign /\ [][NextSign]_vars

----------------------------------------------------------------------------
(* Properties of the history manager *)

\* C1: an undo followed immediately by a redo leaves the live workspace
\* (tree and the three annotation maps) equal to the one that was live
\* immediately before the undo.
C1_UndoRedoRestoresLive ==
    mark.phase = "undoRedo" => Live = mark.preUndo[1]

C5_NothingToUndoOrRedo ==
    [][(\/ op'.name = "undo" /\ historyIndex < 0
        \/ op'.name = "redo" /\ historyIndex + 1 >= Len(history))
         => /\ Live' = Live
            /\ history' = history
            /\ historyIndex' = historyIndex]_vars

\* an undo that found the cursor below 0 with entries in the log
C5_Witness ==
    /\ op = Op("undo", FALSE)
    /\ historyIndex < 0
    /\ Len(history) > 0
    /\ mark = Idle

\* C6: the log never grows to the longest length the exploration admits:
\* some maximum of the program stops it before.
C6_HistoryBounded == Len(history) < MaxHistory

\* what restoring entry e must have produced
Restored(e, tree, anns, imgs, patches) ==
    /\ JsonCopyTree(tree) = e.fileTree
    /\ \A n \in Range(Flatten(tree)) :
          n.id \in DOMAIN e.pdfBytesMap => n.data = e.pdfBytesMap[n.id]
    /\ \A id \in DOMAIN e.pdfBytesMap :
          \E n \in Range(Flatten(tree)) : n.id = id /\ n.data.kind = "bytes"
    /\ anns = e.annotationsByFile
    /\ imgs = e.imageAnnotationsByFile
    /\ patches = e.textPatchesByFile

\* C7: an undo or redo that restores a snapshot gives every node of the
\* restored tree the payload the snapshot's id -> bytes table holds for its
\* id, restores the three annotation maps, and leaves no document that had a
\* payload at capture time without one.
C7_RestoreReattachesPayloads ==
    [][op'.name \in {"undo", "redo"} /\ op'.ok =>
         LET e == IF op'.name = "undo" THEN history[historyIndex + 1]
                                       ELSE history[historyIndex + 2]
         IN Restored(e, fileTree', annotationsByFile', imageAnnotationsByFile',
                     textPatchesByFile')]_vars

\* a restore brought back a document with its bytes and an annotation on it
C7_Witness ==
    /\ op.name \in {"undo", "redo"}
    /\ op.ok
    /\ \E n \in Range(Flatten(fileTree)) :
          /\ n.type = "pdf"
          /\ n.data.kind = "bytes"
          /\ Get(annotationsByFile, n.id) # <<>>

----------------------------------------------------------------------------
(* Properties of the editing surface and of the transform *)

\* the step completes an upload whose capture was taken when it started
UploadCompletes == pendingUpload.active /\ ~pendingUpload'.active

\* C3: every step that mutates the workspace (the tree, an annotation map, or
\* a page's rotation by the rotate button) is a step of a handler that called
\* capture exactly once, on the state before the mutation; the completion of
\* an upload was captured when the upload started.
C3_EveryMutationCaptured ==
    [][(Live' # Live \/ Rotate) /\ ~UploadCompletes =>
         /\ op'.name = "capture"
         /\ captures' = captures + 1
         /\ history'[Len(history')] = getCurrentWorkspaceState]_vars

\* C8: projecting a rect to the display and back gives the rect, at every
\* rotation, a height of 0 included.
C8_InverseOfTransform ==
    xf.pc = "back" => xf.back = xf.rect

\* C9: a text annotation placed by a click while the page is shown at 90
\* degrees is projected by the overlay projector, at 90 degrees, onto the rect
\* (click x, click y, default width, default height).
C9_PlacedAnnotationShownAtClick ==
    [][\A c \in Clicks :
          rotation = 90 /\ PlaceAnnotation(c.x, c.y) =>
             annOverlay(ById(Get(annotationsByFile', activeFile.id), nextEntId))
                = Rect(c.x, c.y, Norm(DefaultWidthPx), DefaultHeight)]_vars

\* a stored coordinate that lies in [0,1]; an unset optional field stores
\* nothing
InUnit(v) == v = Absent \/ (0 <= v /\ v <= Unit)

\* C10: every stored positional field of every text annotation, image
\* annotation and text patch lies in [0,1].
C10_StoredFieldsInUnit ==
    \A k \in DOMAIN annotationsByFile \cup DOMAIN imageAnnotationsByFile
                \cup DOMAIN textPatchesByFile :
        /\ \A a \in Range(Get(annotationsByFile, k)) \cup Range(Get(imageAnnotationsByFile, k)) :
              InUnit(a.x) /\ InUnit(a.y) /\ InUnit(a.width) /\ InUnit(a.height)
        /\ \A q \in Range(Get(textPatchesByFile, k)) :
              InUnit(q.bbox.x) /\ InUnit(q.bbox.y) /\ InUnit(q.bbox.width)
              /\ InUnit(q.bbox.height)

\* C11: a text patch that exists before and after a step (a text edit, a
\* style change, a drag, a resize) has the same bbox after it as before it.
C11_PatchBBoxNeverChanges ==
    [][\A k \in DOMAIN textPatchesByFile :
          \A id \in EntIds :
             HasId(Get(textPatchesByFile, k), id) /\ HasId(Get(textPatchesByFile', k), id) =>
                ById(Get(textPatchesByFile', k), id).bbox
                   = ById(Get(textPatchesByFile, k), id).bbox]_vars

----------------------------------------------------------------------------
(* Properties of the compositor *)

\* a rectangle drawn on a page, converted back to canonical space
toCanonical(rect) ==
    BBox((rect.x * Unit) \div PageWidth,
         ((PageHeight - rect.y - rect.height) * Unit) \div PageHeight,
         (rect.width * Unit) \div PageWidth,
         (rect.height * Unit) \div PageHeight)

Contains(outer, inner) ==
    /\ outer.x <= inner.x
    /\ outer.y <= inner.y
    /\ inner.x + inner.width <= outer.x + outer.width
    /\ inner.y + inner.height <= outer.y + outer.height

\* the operations the composite drew for entity id
drawnFor(result, id) ==
    LET ops == UNION {Range(result.pages[i].drawn) : i \in 1..Len(result.pages)}
    IN {o \in ops : o.of = id}

\* C12: for every patch that a composite has baked, the white rectangle it
\* painted, converted back to canonical space, contains the bbox that was
\* detected when the patch was created, whatever edits came in between.
C12_WhiteoutCoversDetectedBBox ==
    composite.pc = "edited" /\ composite.result.ok =>
        \A q \in Range(composite.patches) :
            \A o \in drawnFor(composite.result, q.id) :
                o.kind = "rectangle" => Contains(toCanonical(o), detected[q.id])

\* where an entity stands in the order patches, free-text annotations, images
\* of a call, and in its own list
kindRank(call, id) ==
    IF HasId(call.patches, id) THEN 1 ELSE IF HasId(call.annotations, id) THEN 2 ELSE 3

placeOf(call, id) ==
    LET s == IF HasId(call.patches, id) THEN call.patches
             ELSE IF HasId(call.annotations, id) THEN call.annotations
             ELSE call.imageAnnotations
    IN CHOOSE i \in 1..Len(s) : s[i].id = id

InOrder(call, ids) ==
    \A j \in 1..Len(ids), k \in 1..Len(ids) :
        j < k =>
           \/ kindRank(call, ids[j]) < kindRank(call, ids[k])
           \/ /\ kindRank(call, ids[j]) = kindRank(call, ids[k])
              /\ placeOf(call, ids[j]) <= placeOf(call, ids[k])

drawnIds(page) == [j \in 1..Len(page.drawn) |-> page.drawn[j].of]

\* C13: on every page the compositor draws, and the overlay projector lists,
\* the patches first, then the free-text annotations, then the images (so
\* nothing is drawn after an image but a later image), each kind in the
\* order of its list.
C13_PatchesAnnotationsImages ==
    /\ composite.pc = "edited" /\ composite.result.ok =>
          \A i \in 1..Len(composite.result.pages) :
              InOrder(composite, drawnIds(composite.result.pages[i]))
    /\ projected.pc = "shown" =>
          InOrder(composite, [j \in 1..Len(projected.overlays) |-> projected.overlays[j].id])

\* a page on which two patches and an image were baked, and shown
C13_Witness ==
    /\ composite.pc = "edited"
    /\ composite.result.ok
    /\ projected.pc = "shown"
    /\ Len(projected.overlays) = 3
    /\ LET ids == Range(drawnIds(composite.result.pages[projected.page]))
       IN /\ Cardinality({id \in ids : kindRank(composite, id) = 1}) = 2
          /\ Cardinality({id \in ids : kindRank(composite, id) = 3}) = 1

\* the entities handed to a call, and the pages the document has
entitiesOf(call) ==
    Range(call.patches) \cup Range(call.annotations) \cup Range(call.imageAnnotations)

onDocument(call, e) == 1 <= e.page /\ e.page <= Len(call.pdfBytes.pages)

\* a patch or an annotation of the document whose text cannot be drawn
undrawableText(call) ==
    \/ \E q \in Range(call.patches) : onDocument(call, q) /\ q.newText \in Unencodable
    \/ \E a \in Range(call.annotations) : onDocument(call, a) /\ a.text \in Unencodable

undecodableImage(call, e) ==
    HasId(call.imageAnnotations, e.id) /\ e.dataUrl \in Undecodable

\* C14: a composite in which every text on the document's pages can be drawn
\* returns output bytes; in them an entity whose page is below 1 or above the
\* page count has no draw operation on any page, and every other entity
\* (but an image that cannot be decoded) is drawn on its page.
C14_OutOfRangeSkipped ==
    composite.pc = "edited" /\ ~undrawableText(composite) =>
        /\ composite.result.ok
        /\ Len(composite.result.pages) = Len(composite.pdfBytes.pages)
        /\ \A e \in entitiesOf(composite) :
              IF onDocument(composite, e)
                 THEN undecodableImage(composite, e)
                      \/ e.id \in Range(drawnIds(composite.result.pages[e.page]))
                 ELSE drawnFor(composite.result, e.id) = {}

\* a composite of a patch on page 0, an annotation on page 3 and an image
\* on page 2 of the two-page document
C14_Witness ==
    /\ composite.pc = "edited"
    /\ composite.result.ok
    /\ \E q \in Range(composite.patches) : q.page = 0 /\ q.newText \in Unencodable
    /\ \E a \in Range(composite.annotations) : a.page = 3
    /\ \E g \in Range(composite.imageAnnotations) :
          g.page = 2 /\ drawnFor(composite.result, g.id) # {}

\* C15: an image of the document that cannot be decoded or embedded is the
\* only thing missing from the output: the call still resolves, every other
\* image of the document and every patch and annotation of the document is
\* drawn; a patch or an annotation of the document whose text cannot be
\* drawn makes the whole call reject.
C15_OnlyImagesFailSoftly ==
    composite.pc = "edited" =>
        IF undrawableText(composite)
           THEN ~composite.result.ok
           ELSE /\ composite.result.ok
                /\ \A e \in entitiesOf(composite) :
                      onDocument(composite, e) =>
                         (undecodableImage(composite, e)
                             <=> drawnFor(composite.result, e.id) = {})

\* a composite that skipped the first of two images and drew a patch
\* before it and the second image after it
C15_Witness ==
    /\ composite.pc = "edited"
    /\ composite.result.ok
    /\ Len(composite.imageAnnotations) = 2
    /\ Len(composite.patches) = 1
    /\ undecodableImage(composite, composite.imageAnnotations[1])
    /\ onDocument(composite, composite.imageAnnotations[1])
    /\ drawnFor(composite.result, composite.imageAnnotations[1].id) = {}
    /\ drawnFor(composite.result, composite.imageAnnotations[2].id) # {}
    /\ drawnFor(composite.result, composite.patches[1].id) # {}

----------------------------------------------------------------------------
(* Properties of the run resolver *)

RECURSIVE plainText(_)
\* the plain text of a markup: its tags stripped, its entities decoded
plainText(tokens) ==
    IF tokens = <<>> THEN ""
    ELSE LET k == Head(tokens)
         IN (CASE k.t = "text" -> k.v
               [] k.t = "entity" -> decoded(k.v)
               [] OTHER -> "") \o plainText(Tail(tokens))

RECURSIVE textNodes(_, _)
\* the texts between the tags of a markup, in document order; cur is the
\* text read since the last tag
textNodes(tokens, cur) ==
    IF tokens = <<>> THEN (IF cur = "" THEN <<>> ELSE <<cur>>)
    ELSE LET k == Head(tokens)
         IN IF k.t \in {"text", "entity"}
               THEN textNodes(Tail(tokens), cur \o plainText(<<k>>))
               ELSE (IF cur = "" THEN <<>> ELSE <<cur>>) \o textNodes(Tail(tokens), "")

RECURSIVE concatenated(_)
concatenated(segments) ==
    IF segments = <<>> THEN "" ELSE Head(segments).text \o concatenated(Tail(segments))

\* C16: the texts of the runs of parseHTMLFormatting(m), concatenated in
\* order, are the plain text of m; the runs are the texts between the tags of
\* m in document order, one run for each (none empty, none merged with its
\* neighbour).
C16_RunsSpellThePlainText ==
    runs.pc = "parsed" =>
        /\ concatenated(runs.segments) = plainText(Markup(runs.html))
        /\ [i \in 1..Len(runs.segments) |-> runs.segments[i].text]
              = textNodes(Markup(runs.html), "")
        /\ \A i \in 1..Len(runs.segments) : runs.segments[i].text # ""

\* a markup with an entity inside a text, and one with two adjacent runs of
\* the same style, have been parsed
C16_Witness ==
    /\ runs.pc = "parsed"
    /\ runs.html = "<u>a</u><u>b</u>"
    /\ Len(runs.segments) = 2
    /\ runs.segments[1].underline /\ runs.segments[2].underline

\* C17: for an entity whose markup is absent or yields no run, the
\* compositor draws one run: the entity's plain text, with the entity's
\* bold, italic, underline and strike flags.
C17_FallbackRunHasBaseStyle ==
    runs.pc = "resolved" /\ Len(parseHTMLFormatting(runs.html)) = 0 =>
        runs.segments = << Segment(runs.text, runs.style) >>

----------------------------------------------------------------------------
(* Properties of merge and split *)

\* every bake the merge of these ids asks for resolves
allBaked(ids) == \A i \in 1..Len(gathered(ids)) : blobOf(gathered(ids)[i]).ok

origins(pages) == [i \in 1..Len(pages) |-> <<pages[i].doc, pages[i].no>>]

\* the pages of the document stored under an id of the tree
pagesOf(tree, id) == bytesOf(findNodeById(tree, id).data).pages

RECURSIVE inputOrigins(_, _)
\* the page sequences of the documents of an id list, one after the other
inputOrigins(tree, ids) ==
    IF ids = <<>> THEN <<>>
    ELSE (IF hasData(tree, Head(ids)) THEN origins(pagesOf(tree, Head(ids))) ELSE <<>>)
         \o inputOrigins(tree, Tail(ids))

RECURSIVE inputPageCount(_, _)
inputPageCount(tree, ids) ==
    IF ids = <<>> THEN 0
    ELSE (IF hasData(tree, Head(ids)) THEN Len(pagesOf(tree, Head(ids))) ELSE 0)
         + inputPageCount(tree, Tail(ids))

\* C19: the document a merge adds to the tree holds the pages of the queued
\* documents, document after document in the order of the queue and page
\* after page in the order of each document; its page count is the sum of
\* theirs.
C19_MergedPagesInQueueOrder ==
    [][(job.kind = "merge" /\ job.pc = "running" /\ job'.pc = "done")
          => /\ nextNodeId \in NodeIds(fileTree')
             /\ origins(pagesOf(fileTree', nextNodeId)) = inputOrigins(fileTree, job.ids)
             /\ Len(pagesOf(fileTree', nextNodeId)) = inputPageCount(fileTree, job.ids)]_vars

\* b.pdf, a.pdf and c.pdf have been merged in that order into four pages,
\* the second of them edited
C19_Witness ==
    /\ job.kind = "merge"
    /\ job.pc = "done"
    /\ job.ids = <<2, 1, 3>>
    /\ origins(job.outputs[1].pages) = << <<"b", 1>>, <<"b", 2>>, <<"a", 1>>, <<"c", 1>> >>
    /\ job.outputs[1].pages[2].drawn # <<>>
    /\ mergeQueue = <<>>

\* the files a split has put into its folder, which is the node created last
splitFolder(tree, next) == findNodeById(tree, next - 1)

\* the draw operations on page p of the active document, as baked for a split
bakedOn(p) ==
    savePdfWithAnnotations(bytesOf(activeFile.data), Get(annotationsByFile, activeFile.id),
                           Get(textPatchesByFile, activeFile.id), pageRotations,
                           Get(imageAnnotationsByFile, activeFile.id)).pages[p].drawn

\* the ids of the active document's entities that are placed on page p
placedOn(p) ==
    {e.id : e \in {x \in Range(Get(annotationsByFile, activeFile.id))
                         \cup Range(Get(textPatchesByFile, activeFile.id))
                         \cup Range(Get(imageAnnotationsByFile, activeFile.id)) :
                      x.page = p}}

\* what the bake adds to page p: the page's operations after those the
\* source had
addedOn(p) ==
    SubSeq(bakedOn(p), Len(bytesOf(activeFile.data).pages[p].drawn) + 1, Len(bakedOn(p)))

\* C20: a split of a document of n pages adds a folder of exactly n files of
\* one page each, the i-th holding page i of the source with what the edits
\* draw on page i and nothing of another page's; a split that yields no page
\* is rejected with the zero-pages error and adds nothing to the tree.
C20_SplitPagesOneByOne ==
    [][(job.kind = "split" /\ job.pc = "running" /\ job'.pc # "running")
          => LET n == Len(bytesOf(activeFile.data).pages)
                 files == splitFolder(fileTree', nextNodeId').children
             IN IF bytesOf(activeFile.data).pdf /\ n = 0
                   THEN /\ job'.pc = "failed"
                        /\ job.error = ZeroPages
                        /\ fileTree' = fileTree
                ELSE job'.pc = "done"
                     => /\ Len(files) = n
                        /\ NodeIds(fileTree') = NodeIds(fileTree) \cup (nextNodeId..(nextNodeId + n))
                        /\ \A i \in 1..n :
                              /\ Len(pagesOf(fileTree', files[i].id)) = 1
                              /\ origins(pagesOf(fileTree', files[i].id))
                                    = << origins(bytesOf(activeFile.data).pages)[i] >>
                              /\ pagesOf(fileTree', files[i].id)[1].drawn = bakedOn(i)
                              /\ \A k \in 1..Len(addedOn(i)) :
                                    addedOn(i)[k].of \in placedOn(i)
                              /\ placedOn(i) # {} => addedOn(i) # <<>>]_vars

\* b.pdf, annotated on its second page only, has been split into two files,
\* and the annotation is drawn in the second and not in the first
C20_Witness ==
    /\ job.kind = "split"
    /\ job.pc = "done"
    /\ job.ids = <<2>>
    /\ Len(splitFolder(fileTree, nextNodeId).children) = 2
    /\ pagesOf(fileTree, splitFolder(fileTree, nextNodeId).children[1].id)[1].drawn = <<>>
    /\ pagesOf(fileTree, splitFolder(fileTree, nextNodeId).children[2].id)[1].drawn # <<>>

----------------------------------------------------------------------------
(* Properties of leaving edit mode *)

\* an annotation left empty or at its placeholder
blankAnnotation(a) == trim(a.text) = "" \/ trim(a.text) = Placeholder

\* a patch left empty, at the placeholder, or with the text it replaces
blankPatch(q) ==
    trim(q.newText) = "" \/ trim(q.newText) = Placeholder \/ q.newText = q.originalText

\* C21: when edit mode is left, the active document keeps no annotation whose
\* trimmed text is empty or the placeholder and no patch whose newText is
\* empty, the placeholder or equal to its originalText, and keeps every other
\* annotation and patch in its order.
C21_BlankEntitiesPruned ==
    [][(isTextMode /\ ~isTextMode' /\ activeFile.type # "none")
          => /\ Get(annotationsByFile', activeFile.id)
                   = SelectSeq(Get(annotationsByFile, activeFile.id),
                               LAMBDA a : ~blankAnnotation(a))
             /\ Get(textPatchesByFile', activeFile.id)
                   = SelectSeq(Get(textPatchesByFile, activeFile.id),
                               LAMBDA q : ~blankPatch(q))]_vars

----------------------------------------------------------------------------
(* Properties of the handlers that run asynchronously *)

\* C22: no two calls of savePdfWithAnnotations on the same document are in
\* flight at the same time, whichever of download, merge and split made them.
C22_OneCompositePerDocument ==
    \A f \in flight : \A g \in flight : f.doc = g.doc => f = g

----------------------------------------------------------------------------
(* Properties of the rotation map *)

\* the quarter turn that follows each rotation delta
quarterAfter(deg) ==
    CASE deg = 0 -> 90 [] deg = 90 -> 180 [] deg = 180 -> 270 [] deg = 270 -> 0

\* C23: whatever rotate actions, page changes and file selections have been
\* made, every value of the page-rotation map is 0, 90, 180 or 270, and a
\* rotate action moves the delta of its page one step along the cycle
\* 0, 90, 180, 270, 0, so that four of them return it to where it was.
C23_RotationsAreQuarterTurns ==
    [][/\ \A p \in DOMAIN pageRotations' : pageRotations'[p] \in {0, 90, 180, 270}
       /\ (pageRotations' # pageRotations /\ pageRotations' # EmptyMap)
             => /\ currentPage' = currentPage
                /\ DOMAIN pageRotations' = DOMAIN pageRotations \cup {currentPage}
                /\ pageRotations'[currentPage] = quarterAfter(rotation)
                /\ \A p \in DOMAIN pageRotations :
                      p # currentPage => pageRotations'[p] = pageRotations[p]]_vars

\* the second page of b.pdf has been rotated four times and its delta is 0
\* again, while the first page is a quarter turn on
C23_Witness ==
    /\ activeFile.id = 2
    /\ DOMAIN pageRotations = {1, 2}
    /\ pageRotations[2] = 0
    /\ pageRotations[1] = 90

----------------------------------------------------------------------------
(* Properties of the log under undo and redo *)

\* C24: an undo appends a snapshot of the live state only when the log holds
\* no entry beyond the cursor, and the undo that follows a redo which has
\* walked to the tail of the log adds no entry, so that undo and redo alone
\* lengthen the log by at most one entry.
C24_UndoPushesOnlyUnsavedState ==
    [][(op' = Op("undo", TRUE) /\ Len(history') > Len(history))
          => /\ historyIndex = Len(history) - 1
             /\ ~(op = Op("redo", TRUE) /\ historyIndex = Len(history) - 1)]_vars

\* C25: in every reachable state -1 <= historyIndex <= Len(history) - 1, so
\* that undo and redo restore an entry of the log, also when the capture is
\* made by the image-load callback of a signature, whose pushHistory belongs
\* to an earlier render.
C25_CursorWithinLog == -1 <= historyIndex /\ historyIndex <= Len(history) - 1

\* C26: a snapshot stored in the log never changes: every step leaves every
\* entry it keeps as it was, the only position that may hold another value
\* being the one a capture has just written after dropping the redo tail;
\* this is so also for an entry that has been restored as the live state
\* and whose live copy has been edited since.
C26_StoredSnapshotsNeverChange ==
    [][\A i \in 1..Min(Len(history), Len(history')) :
          \/ history'[i] = history[i]
          \/ i = Len(history') /\ op'.name = "capture"]_vars

\* the entry an undo has restored still holds the annotation where it was
\* captured, as does the copy of the live state that undo appended, while the
\* live annotation has been dragged elsewhere since
C26_Witness ==
    /\ historyIndex + 2 < Len(history)
    /\ op = Op("other", TRUE)
    /\ moves = 1
    /\ activeFile.type # "none"
    /\ activeAnnotations # <<>>
    /\ LET restored == history[historyIndex + 2]
           tail == history[Len(history)]
       IN /\ restored.annotationsByFile = tail.annotationsByFile
          /\ restored.fileTree = tail.fileTree
          /\ Get(restored.annotationsByFile, activeFile.id) # <<>>
          /\ Get(restored.annotationsByFile, activeFile.id) # activeAnnotations
          /\ fileTree = restoreBinaryData(restored.fileTree, restored.pdfBytesMap)

\* an upload, merge or split has captured and has not yet changed the tree
inFlight == pendingUpload.active \/ job.pc = "running"

\* C27: between the capture taken for an upload, a merge or a split and the
\* tree mutation it guards no other history operation takes effect, and the
\* result of the action is not added to a state that an undo has restored
\* in the meantime.
C27_NoHistoryOperationInFlight ==
    [][/\ (inFlight /\ inFlight') => (history' = history /\ historyIndex' = historyIndex)
       /\ (inFlight /\ ~inFlight' /\ fileTree' # fileTree) => op # Op("undo", TRUE)]_vars

\* C28: a merge or split that fails leaves the workspace as it was: no step
\* of the failing action, from the click to the alert, changes the tree, the
\* three maps, the log or the cursor.
C28_FailureLeavesWorkspace ==
    [][(job' # job /\ job'.pc \in {"running", "failed"} /\ ~job'.ok)
          => /\ fileTree' = fileTree
             /\ annotationsByFile' = annotationsByFile
             /\ imageAnnotationsByFile' = imageAnnotationsByFile
             /\ textPatchesByFile' = textPatchesByFile
             /\ history' = history
             /\ historyIndex' = historyIndex]_vars

\* C29: the active file is null or a node of the live tree under the same
\* name, also after a delete (of the node or of a folder above it), a
\* rename, an undo or a redo.
C29_ActiveFileInTree ==
    \/ activeFile.type = "none"
    \/ /\ activeFile.id \in NodeIds(fileTree)
       /\ findNodeById(fileTree, activeFile.id).name = activeFile.name

----------------------------------------------------------------------------
(* Properties of the pending signature *)

\* C30: each completed signature gives exactly one image annotation and one
\* capture, however many renders there are between its completion and the
\* image-load callback: never more placements or captures than completed
\* signatures, and as many once no load is outstanding.
C30_OneImagePerSignature ==
    /\ signature.placed <= signature.completed
    /\ captures <= signature.completed
    /\ (signature.loads = <<>>) =>
          (signature.placed = signature.completed /\ captures = signature.completed)

====
